---- MODULE Spec2Model ----
(***************************************************************************)
(* A model of the RAFT governor core (nirmathur/raft).                     *)
(*                                                                         *)
(* Spec        the governor cycle (agent/core/governor.py) with the        *)
(*             escape hatches, the config store, the drift monitor, the    *)
(*             energy guard and the proof gate it calls, interleaved with  *)
(*             the operator's request_pause / update_config calls.         *)
(*                                                                         *)
(* Numbers are fixed point: spectral radii and rho_max are in hundredths   *)
(* (0.9 is 90), joules in tenths (3.8 J is 38), energy_multiplier in       *)
(* tenths (2.0 is 20).                                                     *)
(***************************************************************************)
EXTENDS Integers, Sequences, FiniteSets, TLC

VARIABLES
    pc,                 \* position of the governor thread inside run_one_cycle
    started,            \* guards started by the current invocation, in order
    result,             \* outcome of the last invocation of run_one_cycle
    cycles,             \* number of invocations started so far
    events,             \* logs/event_log.jsonl: event names, in append order
    logStart,           \* Len(events) when the current invocation started
    pre,                \* state that outlives a cycle, as it was at its start
    rho,                \* the current invocation's spectral-radius estimate
    verdict,            \* what verify returned to the current invocation
    window,             \* _DRIFT_MONITOR._values
    counters,           \* Prometheus counters the governor increments
    paused,             \* escape_hatches._pause_requested
    pauseHist,          \* the pause flag over the current invocation: on, off, mixed
    config,             \* config_store._config
    configFile,         \* the persisted YAML file of the config store
    energyEnabled,      \* os.getenv("ENERGY_GUARD_ENABLED") is not "false"
    cache,              \* the Redis proof cache: key -> stored string
    call,               \* the last direct call of verify and what it did
                        \* (tick flips at every call)
    diff,               \* a unified diff under construction (its lines)
    smt,                \* what build_smt_diff returned for diff
    mon,                \* a DriftMonitor object and its last call
    store,              \* the callers of the config store: the last call,
                        \* load_config's position, a held get_config() result
    probe,              \* a configuration pair tried on every update surface
    plan,               \* steps of the Plan object handed to verify_plan
    planIn,             \* last step construction tried by the plan models
    planPc,             \* position of each verify_plan call
    planCache,          \* Redis entries under the plan key
    planCall,           \* last return of verify_plan
    scope,              \* a measure_block scope used on its own: position, samples, checks
    proc,               \* one OS process: kill flag, watchdog thread, governor position, exit
    http,               \* operator API: last request and response, flags set by handlers
    elog,               \* the event log file and the concurrent calls of record
    est,                \* the spectral model's parameters and the running estimate
    upd                 \* concurrent update_config calls on the config store

vars == <<pc, started, result, cycles, events, logStart, pre, rho, verdict,
          window, counters, paused, pauseHist, config, configFile,
          energyEnabled, cache, call, diff, smt, mon, store,
          probe,
          plan,
          planIn,
          planPc,
          planCache,
          planCall,
          scope,
          proc,
          http,
          elog,
          est,
          upd>>

----------------------------------------------------------------------------
\* Bounds of the model

MaxCycles == 3

\* record is called on a window of fewer than MaxSamples values, or on a full
\* window
MaxSamples == 5

----------------------------------------------------------------------------
\* Python helpers

Range(s) == {s[i] : i \in DOMAIN s}

Last(s) == s[Len(s)]

\* bool(d) of a dict d: a dict is truthy exactly when it has a key
PyTruthy(d) == DOMAIN d # {}

----------------------------------------------------------------------------
\* smt_verifier.py: the proof gate and its cache

\* SMT-LIB2 texts handed to verify
SmtTrue == "(assert true)"
SmtFalse == "(assert false)"
SmtVars == "(declare-const x Int) (assert (> x 10))"
SmtHard == "(declare-const x Real) (assert (= (* x x x) (exp x)))"
SmtMalformed == "(assert (this is not valid smt"

Formulas == {SmtTrue, SmtFalse, SmtVars, SmtHard, SmtMalformed}

\* hashlib.sha256(charter.md) and the hash of another charter text
CHARTER_HASH == "charter-sha256"
OtherHash == "other-sha256"
Hashes == {CHARTER_HASH, OtherHash}

\* _cache_key without the charter hash
_cache_key_Unsalted(diff_, charter_hash) == <<diff_, CHARTER_HASH>>

\* _cache_key: sha256(diff) ":" charter_hash, injective on (diff, hash)
_cache_key(diff_, charter_hash) == <<diff_, charter_hash>>

CacheKeys == {_cache_key(f, h) : f \in Formulas, h \in Hashes}

\* parse_smt2_string raises on malformed text
ParseOk(f) == f # SmtMalformed

\* solver.check(): the results Z3 can give for each text
SolverCheck(f) ==
    CASE f = SmtTrue -> {"sat"}
      [] f = SmtVars -> {"sat"}
      [] f = SmtFalse -> {"unsat"}
      [] f = SmtHard -> {"unknown"}
      [] OTHER -> {}

\* _extract_model: the assignments of the model; {} when no variable is declared
_extract_model(f) == IF f = SmtVars THEN "x=11" ELSE "{}"

\* a verdict dict {"result": ..., "counterexample": ...}
Verdict(r, ce) == [result |-> r, counterexample |-> ce]

NoVerdict == Verdict(FALSE, "-")

\* strings held by Redis: the legacy flags, JSON of a verdict, anything else
NoEntry == [kind |-> "none", result |-> FALSE, counterexample |-> "-"]
Legacy1 == [kind |-> "1", result |-> FALSE, counterexample |-> "-"]
Legacy0 == [kind |-> "0", result |-> FALSE, counterexample |-> "-"]
Garbage == [kind |-> "garbage", result |-> FALSE, counterexample |-> "-"]

\* json.dumps of a verdict dict, and json.loads of such a string
JsonDumps(v) == [kind |-> "json", result |-> v.result,
                 counterexample |-> v.counterexample]
JsonLoads(s) == Verdict(s.result, s.counterexample)

\* _get_cached answering a failed read with an undecodable string
_get_cached_FailureAsEntry(c, key, getOk) == IF getOk THEN c[key] ELSE Garbage

\* _get_cached: None when Redis is down or the key is absent
_get_cached(c, key, getOk) == IF getOk THEN c[key] ELSE NoEntry

\* _set_cache: a no-op when Redis is down
_set_cache(c, key, value, setOk) ==
    IF setOk THEN [c EXCEPT ![key] = value] ELSE c

\* verify, lines 134-149: the answer on a cache hit
CacheHitVerdict(cached) ==
    CASE cached.kind = "1" -> Verdict(TRUE, "None")
      [] cached.kind = "0" -> Verdict(FALSE, "formula_unsatisfiable")
      [] cached.kind = "json" -> JsonLoads(cached)
      [] OTHER -> Verdict(FALSE, "cache_error")

\* SolvedVerdict with the opposite polarity: UNSAT passes, SAT fails
SolvedVerdict_UnsatPasses(f, check_result) ==
    CASE check_result = "unsat" -> Verdict(TRUE, "None")
      [] check_result = "sat" -> Verdict(FALSE, _extract_model(f))
      [] OTHER -> Verdict(FALSE, "solver_unknown")

\* verify, lines 164-192: the verdict for a solver result
SolvedVerdict(f, check_result) ==
    CASE check_result = "sat" ->
            IF _extract_model(f) # "{}"
            THEN Verdict(TRUE, _extract_model(f))
            ELSE Verdict(TRUE, "None")
      [] check_result = "unsat" -> Verdict(FALSE, "formula_unsatisfiable")
      [] OTHER -> Verdict(FALSE, "solver_unknown")

\* verify(diff, charter_hash) on cache c; check_result is what solver.check()
\* answers if it is asked. raised: RuntimeError("SMT parse error"); parsed:
\* parse_smt2_string was called.
verify(f, h, c, getOk, setOk, check_result) ==
    LET key == _cache_key(f, h)
        cached == _get_cached(c, key, getOk)
    IN  IF cached # NoEntry
        THEN [raised |-> FALSE, value |-> CacheHitVerdict(cached), cache |-> c,
              check |-> "none", parsed |-> FALSE]
        ELSE IF ~ParseOk(f)
        THEN LET err == JsonDumps(Verdict(FALSE, "parse_error"))
             IN  [raised |-> TRUE, value |-> NoVerdict,
                  cache |-> _set_cache(c, key, err, setOk),
                  check |-> "none", parsed |-> TRUE]
        ELSE LET v == SolvedVerdict(f, check_result)
             IN  [raised |-> FALSE, value |-> v,
                  cache |-> _set_cache(c, key, JsonDumps(v), setOk),
                  check |-> check_result, parsed |-> TRUE]

----------------------------------------------------------------------------
\* drift_monitor.py

\* DriftMonitor.__init__ defaults: DRIFT_WINDOW, DRIFT_MEAN_THRESHOLD (0.05),
\* DRIFT_MAX_THRESHOLD (0.10)
window_size == 10
mean_threshold == 5
max_threshold == 10

Abs(x) == IF x < 0 THEN -x ELSE x

RECURSIVE SumSeq(_)
SumSeq(s) == IF s = <<>> THEN 0 ELSE Head(s) + SumSeq(Tail(s))

MaxSeq(s) == CHOOSE m \in Range(s) : \A x \in Range(s) : x <= m

\* a deque that never evicts
DequeAppend_NoEvict(values, x, maxlen) == Append(values, x)

\* deque(maxlen).append: the oldest value is evicted from a full deque
DequeAppend(values, x, maxlen) ==
    IF Len(values) >= maxlen THEN Append(Tail(values), x) ELSE Append(values, x)

\* signed differences of consecutive window values
Diffs_Signed(values) == [i \in 1..(Len(values) - 1) |-> values[i + 1] - values[i]]

\* the absolute differences of consecutive window values
Diffs(values) == [i \in 1..(Len(values) - 1) |-> Abs(values[i + 1] - values[i])]

\* DriftMonitor.record, lines 129-149, on the window after the append:
\* mean(diffs) > mean_threshold or max(diffs) > max_threshold
DriftAlertRaised(values) ==
    /\ Len(values) >= 2
    /\ \/ SumSeq(Diffs(values)) > mean_threshold * Len(Diffs(values))
       \/ MaxSeq(Diffs(values)) > max_threshold

\* the same test with >= in place of >
DriftExceeds_NonStrict(values, mean_thr, max_thr) ==
    /\ Len(values) >= 2
    /\ \/ SumSeq(Diffs(values)) >= mean_thr * Len(Diffs(values))
       \/ MaxSeq(Diffs(values)) >= max_thr

\* the test of record for a monitor with thresholds mean_thr and max_thr
DriftExceeds(values, mean_thr, max_thr) ==
    /\ Len(values) >= 2
    /\ \/ SumSeq(Diffs(values)) > mean_thr * Len(Diffs(values))
       \/ MaxSeq(Diffs(values)) > max_thr

\* DriftMonitor(window_size, mean_threshold=..., max_threshold=...): a new
\* monitor. op, last, raised: its last call, the value recorded, whether it
\* raised DriftAlert; alerted: some record on this monitor has raised;
\* wasFull: the window held window_size values when record was called;
\* run: how many records of one value have followed a record that raised,
\* with no other call in between (counted up to window_size)
DriftMonitor(w, mean_thr, max_thr) ==
    [window_size |-> w, mean_threshold |-> mean_thr, max_threshold |-> max_thr,
     values |-> <<>>, op |-> "init", last |-> 0, raised |-> FALSE,
     alerted |-> FALSE, wasFull |-> FALSE, run |-> 0]

\* the records of one value since an alert, this record of rho_ included
StableRun(m, rho_) ==
    IF m.run > 0 /\ rho_ = m.last
    THEN (IF m.run >= m.window_size THEN m.run ELSE m.run + 1)
    ELSE IF m.op = "record" /\ m.raised THEN 1 ELSE 0

\* record that tests the window before it appends the new value
record_TestBeforeAppend(m, rho_) ==
    LET values == DequeAppend(m.values, rho_, m.window_size)
        alert == DriftExceeds(m.values, m.mean_threshold, m.max_threshold)
    IN  [m EXCEPT !.values = values, !.op = "record", !.last = rho_,
                  !.raised = alert, !.alerted = @ \/ alert,
                  !.wasFull = (Len(m.values) = m.window_size),
                  !.run = StableRun(m, rho_)]

\* record that restores the window when it raises
record_RollbackOnAlert(m, rho_) ==
    LET values == DequeAppend(m.values, rho_, m.window_size)
        alert == DriftExceeds(values, m.mean_threshold, m.max_threshold)
    IN  [m EXCEPT !.values = IF alert THEN m.values ELSE values,
                  !.op = "record", !.last = rho_,
                  !.raised = alert, !.alerted = @ \/ alert,
                  !.wasFull = (Len(m.values) = m.window_size),
                  !.run = StableRun(m, rho_)]

\* DriftMonitor.record(rho): append, then test
record(m, rho_) ==
    LET values == DequeAppend(m.values, rho_, m.window_size)
        alert == DriftExceeds(values, m.mean_threshold, m.max_threshold)
    IN  [m EXCEPT !.values = values, !.op = "record", !.last = rho_,
                  !.raised = alert, !.alerted = @ \/ alert,
                  !.wasFull = (Len(m.values) = m.window_size),
                  !.run = StableRun(m, rho_)]

\* DriftMonitor.reset()
reset(m) == [m EXCEPT !.values = <<>>, !.op = "reset", !.raised = FALSE,
                      !.run = 0]

----------------------------------------------------------------------------
\* energy_guard.py

HERMES_BASELINE_JOULES_PER_SECOND == 19
APOPTOSIS_THRESHOLD_MULTIPLIER == 20

\* macs_estimate of run_one_cycle, in millions of MACs
macs_estimate == 1000

\* joules (in tenths) an energy scope can measure between its two samples
UsedJoules == {0, 38, 39}

\* check_budget raises SystemExit: used / max(0.001, macs / 1e9) > 1.9 * 2.0,
\* with the duration in milliseconds
BudgetBreached(used_joules, macs) ==
    LET estimated_duration == IF macs > 1 THEN macs ELSE 1
    IN  used_joules * 1000 * 10 >
            HERMES_BASELINE_JOULES_PER_SECOND * APOPTOSIS_THRESHOLD_MULTIPLIER
                * estimated_duration

\* measure_block around a body that raises bodyRaises (or "none"): what
\* leaves the with statement
measure_block_BodyExceptionWins(enabled, used_joules, macs, bodyRaises) ==
    IF ~enabled
    THEN "none"
    ELSE IF bodyRaises # "none" THEN bodyRaises
    ELSE IF BudgetBreached(used_joules, macs) THEN "SystemExit"
    ELSE "none"
measure_block(enabled, used_joules, macs, bodyRaises) ==
    IF ~enabled
    THEN "none"                 \* finally: return  swallows the exception
    ELSE IF BudgetBreached(used_joules, macs) THEN "SystemExit"
    ELSE bodyRaises

----------------------------------------------------------------------------
\* config_store.py

DefaultConfig == [rho_max |-> 90, energy_multiplier |-> 20]

ConfigFields == {"rho_max", "energy_multiplier"}

\* ConfigValidator: rho_max in (0, 1), energy_multiplier in [1, 4]
ConfigValid(c) ==
    /\ c.rho_max > 0 /\ c.rho_max < 100
    /\ c.energy_multiplier >= 10 /\ c.energy_multiplier <= 40

\* the update dicts the operator sends while the governor runs
GovUpdates == {[rho_max |-> 60], [rho_max |-> 95], [rho_max |-> 100]}

\* new_values = asdict(_config); new_values.update(updates)
Merge(c, updates) ==
    [k \in DOMAIN c \cup DOMAIN updates |->
        IF k \in DOMAIN updates THEN updates[k] ELSE c[k]]

\* the config store's callers before any call: loadPc is load_config's
\* position, held tells whether a caller holds an object get_config returned
\* and whether _config still names that object
NoStoreCall == [op |-> "none", failed |-> FALSE, reason |-> "",
                preConfig |-> DefaultConfig, preFile |-> DefaultConfig,
                loadPc |-> "idle", held |-> "none"]

\* no pair has been tried yet
NoProbe == [rho_max |-> 0, energy_multiplier |-> 0, tried |-> FALSE,
            api |-> FALSE, store |-> FALSE, legacy |-> FALSE]

\* No measure_block scope is open; counter is the cumulative energy reading
\* of _read_joules, in the unit of UsedJoules.
NoScope == [pc |-> "out", env |-> "", body |-> "none", counter |-> 0,
            start_joules |-> 0, start_samples |-> 0, end_samples |-> 0,
            checks |-> 0, breach |-> FALSE, outcome |-> "none",
            message |-> ""]

\* A process right after its start: no kill requested, the governor module
\* not imported (so no watchdog thread), no cycle run.  complete counts the
\* cycle-complete events, count is CYCLE_COUNT.
NewProcess == [kill |-> FALSE, watchdog |-> FALSE, pc |-> "idle",
               mid |-> FALSE, complete |-> 0, count |-> 0,
               exit |-> "none", by |-> ""]

\* The operator API before any request: the flags its handlers set, and the
\* last request with its response.
\* config and file are the config store's _config and its YAML file, model
\* names the parameters of governor._SPECTRAL_MODEL, appended lists the
\* events the last request recorded, reported is the body of a /state answer.
NoRequest == [sent |-> FALSE, endpoint |-> "", authorization |-> "",
              body |-> "", status |-> 0, detail |-> "", handled |-> FALSE,
              pause |-> FALSE, kill |-> FALSE,
              config |-> DefaultConfig, file |-> DefaultConfig,
              model |-> "initial", appended |-> <<>>,
              reported |-> [pause |-> FALSE, kill |-> FALSE]]

\* The threads that call record: the governor and an operator API handler.
Writers == {"governor", "operator"}

\* logs/event_log.jsonl as the pieces written to it, and each writer's call
\* of record: its position, the number of its calls, the bytes still in its
\* file object's buffer, the calls that had returned when its call began.
EmptyLog == [file |-> <<>>,
             pc |-> [w \in Writers |-> "idle"],
             n |-> [w \in Writers |-> 0],
             pending |-> [w \in Writers |-> <<>>],
             before |-> [w \in Writers |-> {}],
             returned |-> {}]

\* governor._SPECTRAL_MODEL and the cycle's spectral estimate: model is the
\* version of the parameters, used the versions the current estimate read.
NoEstimate == [model |-> 0, pc |-> "idle", iter |-> 0, used |-> {}]

\* The threads that call update_config concurrently.
Updaters == {1, 2}

\* The config store before any of them calls: lock is the holder of
\* _config_lock (0: free), updates the argument of each call, local each
\* call's new_config.
NoUpdaters == [config |-> DefaultConfig, file |-> DefaultConfig, lock |-> 0,
               pc |-> [t \in Updaters |-> "idle"],
               updates |-> [t \in Updaters |-> [rho_max |-> 90]],
               local |-> [t \in Updaters |-> DefaultConfig]]

\* The plan prover before any plan is built or verified.  A plan step is a
\* record [op, arg]; arg is the step's string (url, path or target) as a
\* sequence of tokens, so that prefix, substring and path-component tests
\* are computed on it.
Callers == {1, 2}

NoPlanIn == [tried |-> FALSE, module |-> "", op |-> "", raw |-> <<>>,
             accepted |-> FALSE, stored |-> <<>>]

NoCounterexample == [step_idx |-> -1, op |-> "", field |-> "", value |-> <<>>]

NoPlanReturn == [done |-> FALSE, raised |-> FALSE,
                 passed |-> FALSE, counterexample |-> NoCounterexample,
                 via |-> ""]

EmptyPlanCache == [verdict |-> "", counterexample |-> NoCounterexample]

\* operator_api.ConfigUpdateReq: Field(gt=0, lt=1), Field(ge=1, le=4)
ConfigUpdateReqAccepts(rho_max_, energy_multiplier_) ==
    /\ rho_max_ > 0 /\ rho_max_ < 100
    /\ energy_multiplier_ >= 10 /\ energy_multiplier_ <= 40

\* agent.core.config.update_config: 0.0 < rho_max <= 1.0 and
\* energy_multiplier > 0, else ValueError
RaftConfigUpdateAccepts(rho_max_, energy_multiplier_) ==
    /\ rho_max_ > 0 /\ rho_max_ <= 100
    /\ energy_multiplier_ > 0

\* update_config accepts: Config(**new_values) takes the keys and validate passes
UpdateAccepted(c, updates) ==
    /\ DOMAIN Merge(c, updates) = ConfigFields
    /\ ConfigValid(Merge(c, updates))

----------------------------------------------------------------------------
\* governor.py

MAX_SPECTRAL_RADIUS == 90

\* _build_smt_diff: build_smt_diff("example diff text"), a text with no added
\* or removed line
GovernorObligation == SmtTrue

\* estimates estimate_spectral_radius can return (hundredths)
RhoValues == {50, 62, 95}

\* strings the proof cache can hold for the governor's key without verify
\* having written them (entries of an older format, damaged entries)
ForeignEntries == {Legacy1, Legacy0, Garbage}

\* the event names run_one_cycle passes to record, as json.dumps writes them
\* to the log: three of them are spelled with U+2011 (non-breaking hyphen),
\* "drift-alert" with the ASCII hyphen
ProofFailEvent == "proof\\u2011fail"
DriftAlertEvent == "drift-alert"
SpectralBreachEvent == "spectral\\u2011breach"
CycleCompleteEvent == "cycle\\u2011complete"

GuardOrder == <<"proof", "spectral", "drift", "rho_check", "energy", "commit">>

Inc(c, name) == [c EXCEPT ![name] = @ + 1]

CycleEvents == SubSeq(events, logStart + 1, Len(events))

govUnchanged == <<call, diff, smt, mon, store, probe, plan, planIn, planPc,
                  planCache, planCall, scope, proc, http, elog, est, upd>>

\* run_one_cycle is entered (lines 106-111)
StartCycle ==
    /\ pc = "idle"
    /\ cycles < MaxCycles
    /\ pc' = "proof"
    /\ cycles' = cycles + 1
    /\ started' = <<>>
    /\ result' = "running"
    /\ logStart' = Len(events)
    /\ pre' = [window |-> window, counters |-> counters]
    /\ pauseHist' = (IF paused THEN "on" ELSE "off")
    /\ rho' = 0
    /\ verdict' = NoVerdict
    /\ UNCHANGED <<events, window, counters, paused, config, configFile,
                   energyEnabled, cache>>
    /\ UNCHANGED govUnchanged

\* lines 112-125: the Z3 proof gate
ProofGate ==
    /\ pc = "proof"
    /\ \E getOk \in BOOLEAN, setOk \in BOOLEAN,
          check_result \in SolverCheck(GovernorObligation) :
        LET r == verify(GovernorObligation, CHARTER_HASH, cache, getOk, setOk,
                        check_result)
            ok == PyTruthy(r.value)
        IN  /\ cache' = r.cache
            /\ verdict' = r.value
            /\ started' = Append(started, "proof")
            /\ IF ok
               THEN /\ counters' = Inc(counters, "PROOF_SUCCESS")
                    /\ pc' = "spectral"
                    /\ UNCHANGED <<events, result>>
               ELSE /\ events' = Append(events, ProofFailEvent)
                    /\ counters' = Inc(Inc(counters, "PROOF_FAILURE"), "x^x-22a")
                    /\ result' = "false"
                    /\ pc' = "idle"
    /\ UNCHANGED <<cycles, logStart, pre, rho, window, paused, pauseHist,
                   config, configFile, energyEnabled>>
    /\ UNCHANGED govUnchanged

\* lines 127-131: the spectral-radius estimate at a random point
SpectralEstimate ==
    /\ pc = "spectral"
    /\ \E r \in RhoValues : rho' = r
    /\ started' = Append(started, "spectral")
    /\ pc' = "drift"
    /\ UNCHANGED <<result, cycles, events, logStart, pre, verdict, window,
                   counters, paused, pauseHist, config, configFile,
                   energyEnabled, cache>>
    /\ UNCHANGED govUnchanged

\* DriftGuard with a handler that records the alert but does not return
DriftGuard_NoReturn ==
    /\ pc = "drift"
    /\ window' = DequeAppend(window, rho, window_size)
    /\ started' = Append(started, "drift")
    /\ IF DriftAlertRaised(window')
       THEN /\ events' = Append(events, DriftAlertEvent)
            /\ counters' = Inc(counters, "x^x-19")
            /\ pc' = "rho_check"
            /\ UNCHANGED result
       ELSE /\ pc' = "rho_check"
            /\ UNCHANGED <<events, counters, result>>
    /\ UNCHANGED <<cycles, logStart, pre, rho, verdict, paused,
                   pauseHist, config, configFile, energyEnabled, cache>>
    /\ UNCHANGED govUnchanged

\* lines 133-142: _DRIFT_MONITOR.record(rho) and the DriftAlert handler
DriftGuard ==
    /\ pc = "drift"
    /\ window' = DequeAppend(window, rho, window_size)
    /\ started' = Append(started, "drift")
    /\ IF DriftAlertRaised(window')
       THEN /\ events' = Append(events, DriftAlertEvent)
            /\ counters' = Inc(counters, "x^x-19")
            /\ result' = "false"
            /\ pc' = "idle"
       ELSE /\ pc' = "rho_check"
            /\ UNCHANGED <<events, counters, result>>
    /\ UNCHANGED <<cycles, logStart, pre, rho, verdict, paused,
                   pauseHist, config, configFile, energyEnabled, cache>>
    /\ UNCHANGED govUnchanged

\* lines 144-150: the hard limit on rho
RhoCheck ==
    /\ pc = "rho_check"
    /\ started' = Append(started, "rho_check")
    /\ IF rho >= MAX_SPECTRAL_RADIUS
       THEN /\ events' = Append(events, SpectralBreachEvent)
            /\ counters' = Inc(counters, "x^x-17")
            /\ result' = "false"
            /\ pc' = "idle"
       ELSE /\ pc' = "energy"
            /\ UNCHANGED <<events, counters, result>>
    /\ UNCHANGED <<cycles, logStart, pre, rho, verdict, window, paused,
                   pauseHist, config, configFile, energyEnabled, cache>>
    /\ UNCHANGED govUnchanged

\* lines 152-156: with measure_block(macs_estimate) as used_joules. The scope
\* yields None, so the body's  used_joules > 0  raises TypeError.
EnergyScope ==
    /\ pc = "energy"
    /\ started' = Append(started, "energy")
    /\ \E used \in UsedJoules :
        LET out == measure_block(energyEnabled, used, macs_estimate, "TypeError")
        IN  /\ pc' = CASE out = "none" -> "commit"
                       [] out = "SystemExit" -> "exited"
                       [] OTHER -> "idle"
            /\ result' = IF out = "none" THEN result ELSE out
    /\ UNCHANGED <<cycles, events, logStart, pre, rho, verdict, window,
                   counters, paused, pauseHist, config, configFile,
                   energyEnabled, cache>>
    /\ UNCHANGED govUnchanged

\* lines 158-166: record("cycle-complete") and CYCLE_COUNT.inc()
Commit ==
    /\ pc = "commit"
    /\ started' = Append(started, "commit")
    /\ events' = Append(events, CycleCompleteEvent)
    /\ counters' = Inc(counters, "CYCLE_COUNT")
    /\ pc' = "pause_check"
    /\ UNCHANGED <<result, cycles, logStart, pre, rho, verdict, window, paused,
                   pauseHist, config, configFile, energyEnabled, cache>>
    /\ UNCHANGED govUnchanged

\* lines 168-171: if is_paused(): return False; return True
PauseCheck ==
    /\ pc = "pause_check"
    /\ result' = IF paused THEN "false" ELSE "true"
    /\ pc' = "idle"
    /\ UNCHANGED <<started, cycles, events, logStart, pre, rho, verdict, window,
                   counters, paused, pauseHist, config, configFile,
                   energyEnabled, cache>>
    /\ UNCHANGED govUnchanged

\* escape_hatches.request_pause(pause), from the operator's thread
RequestPause ==
    /\ pc # "exited"
    /\ \E pause \in BOOLEAN :
        /\ paused' = pause
        /\ pauseHist' = IF pauseHist = (IF pause THEN "on" ELSE "off")
                        THEN pauseHist ELSE "mixed"
    /\ UNCHANGED <<pc, started, result, cycles, events, logStart, pre, rho,
                   verdict, window, counters, config, configFile,
                   energyEnabled, cache>>
    /\ UNCHANGED govUnchanged

\* config_store.update_config(updates), from the operator's thread; saveOk:
\* _save_config writes the file (it raises otherwise, after _config is set)
UpdateConfig ==
    /\ pc # "exited"
    /\ \E updates \in GovUpdates, saveOk \in BOOLEAN :
        IF UpdateAccepted(config, updates)
        THEN /\ config' = Merge(config, updates)
             /\ configFile' = IF saveOk THEN config' ELSE configFile
        ELSE UNCHANGED <<config, configFile>>
    /\ UNCHANGED <<pc, started, result, cycles, events, logStart, pre, rho,
                   verdict, window, counters, paused, pauseHist,
                   energyEnabled, cache>>
    /\ UNCHANGED govUnchanged

\* the Redis server: an entry for the governor's key appears or expires (TTL)
\* between two cycles
CacheEnvironment ==
    /\ pc = "idle"
    /\ \E e \in ForeignEntries \cup {NoEntry} :
        /\ cache[_cache_key(GovernorObligation, CHARTER_HASH)] # e
        /\ cache' = [cache EXCEPT
                        ![_cache_key(GovernorObligation, CHARTER_HASH)] = e]
    /\ UNCHANGED <<pc, started, result, cycles, events, logStart, pre, rho,
                   verdict, window, counters, paused, pauseHist, config,
                   configFile, energyEnabled>>
    /\ UNCHANGED govUnchanged

CounterNames == {"CYCLE_COUNT", "PROOF_SUCCESS", "PROOF_FAILURE",
                 "x^x-22a", "x^x-19", "x^x-17"}

NoCall == [formula |-> "-", hash |-> "-", raised |-> FALSE, value |-> NoVerdict,
           check |-> "none", parsed |-> FALSE, getOk |-> TRUE, setOk |-> TRUE,
           tick |-> 0]

Init ==
    /\ pc = "idle"
    /\ started = <<>>
    /\ result = "none"
    /\ cycles = 0
    /\ events = <<>>
    /\ logStart = 0
    /\ pre = [window |-> <<>>, counters |-> [n \in CounterNames |-> 0]]
    /\ rho = 0
    /\ verdict = NoVerdict
    /\ window = <<>>
    /\ counters = [n \in CounterNames |-> 0]
    /\ paused = FALSE
    /\ pauseHist = "off"
    /\ config = DefaultConfig
    /\ configFile = DefaultConfig
    /\ energyEnabled \in BOOLEAN
    /\ cache = [k \in CacheKeys |-> NoEntry]
    /\ call = NoCall
    /\ diff = <<>>
    /\ smt = "-"
    /\ mon = DriftMonitor(window_size, mean_threshold, max_threshold)
    /\ store = NoStoreCall
    /\ probe = NoProbe
    /\ plan = <<>>
    /\ planIn = NoPlanIn
    /\ planPc = [c \in Callers |-> "idle"]
    /\ planCache = EmptyPlanCache
    /\ planCall = NoPlanReturn
    /\ scope = NoScope
    /\ proc = NewProcess
    /\ http = NoRequest
    /\ elog = EmptyLog
    /\ est = NoEstimate
    /\ upd = NoUpdaters

Next ==
    \/ StartCycle
    \/ ProofGate
    \/ SpectralEstimate
    \/ DriftGuard
    \/ RhoCheck
    \/ EnergyScope
    \/ Commit
    \/ PauseCheck
    \/ RequestPause
    \/ UpdateConfig
    \/ CacheEnvironment

Spec == Init /\ [][Next]_vars

----------------------------------------------------------------------------
\* Properties of the governor cycle (specification Spec)

Count(s, e) == Cardinality({i \in DOMAIN s : s[i] = e})

IsPrefix(s, t) == Len(s) <= Len(t) /\ \A i \in DOMAIN s : s[i] = t[i]

Did(step) == step \in Range(started)

\* the current invocation has ended by a return or by an exception
Ended == pc = "idle" /\ result \in {"true", "false", "TypeError"}

FailureEvents == {"proof-fail", "drift-alert", "spectral-breach"}

\* C1: the guards of an invocation run in the order proof, spectral estimate,
\* drift record, rho check, energy scope, cycle-complete, and a guard is
\* started only after every earlier guard has admitted the cycle: the proof
\* verdict is Passed, record(rho) raised no DriftAlert, rho is below the limit.
C1_GuardOrder ==
    /\ IsPrefix(started, GuardOrder)
    /\ Did("spectral") => verdict.result
    /\ Did("rho_check") => ~DriftAlertRaised(window)
    /\ Did("energy") => rho < MAX_SPECTRAL_RADIUS
    /\ Did("commit") => result # "SystemExit"

\* C2: an invocation whose proof passes, whose record(rho) raises no
\* DriftAlert, whose rho is below rho_max, whose energy scope ends within
\* budget and during which the pause flag is never set, records exactly one
\* cycle-complete event and returns true, with the energy guard on or off.
C2_GreenCycleCompletes ==
    ( /\ Ended
      /\ verdict.result
      /\ Did("drift") /\ ~DriftAlertRaised(window)
      /\ rho < config.rho_max /\ rho < MAX_SPECTRAL_RADIUS
      /\ Did("energy")
      /\ pauseHist = "off" )
    => (result = "true" /\ CycleEvents = <<"cycle-complete">>)

\* C3: an invocation that returns false has written exactly one terminal
\* failure event (proof-fail, drift-alert or spectral-breach) and no
\* cycle-complete event.
C3_FalseMeansOneFailureEvent ==
    (pc = "idle" /\ result = "false")
    => /\ Len(CycleEvents) = 1
       /\ CycleEvents[1] \in FailureEvents

\* C4: an invocation that runs with the pause flag set from its start to its
\* end executes no commit-side effect (no cycle-complete event, no increment
\* of the completed-cycle counter) and does not return true.
C4_PausedCycleCommitsNothing ==
    (pauseHist = "on" /\ result # "none")
    => /\ Count(CycleEvents, "cycle-complete") = 0
       /\ counters["CYCLE_COUNT"] = pre.counters["CYCLE_COUNT"]
       /\ result # "true"

\* C5: when the verdict verify gives for the cycle's obligation is Failed, the
\* invocation records a proof-fail event, increments the proof-failure counter,
\* returns false, and neither estimates rho nor records a drift sample.
C5_FailedVerdictAborts ==
    (Did("proof") /\ ~verdict.result)
    => /\ pc = "idle" /\ result = "false"
       /\ CycleEvents = <<"proof-fail">>
       /\ counters["PROOF_FAILURE"] = pre.counters["PROOF_FAILURE"] + 1
       /\ started = <<"proof">>
       /\ window = pre.window

\* C6: the spectral check aborts the cycle with a spectral-breach event and the
\* result false if and only if rho >= the config store's current rho_max.
C6_BreachIffAboveConfigRhoMax ==
    [][(pc = "rho_check" /\ pc' # "rho_check")
        => ((events' = Append(events, "spectral-breach") /\ result' = "false")
            <=> rho >= config.rho_max)]_vars

\* C7: when record(rho) raises DriftAlert, the invocation records exactly one
\* drift-alert event and no spectral-breach event (also when rho >= rho_max),
\* does not enter the energy scope, and returns false.
C7_DriftAlertAborts ==
    (Did("drift") /\ DriftAlertRaised(window))
    => /\ CycleEvents = <<"drift-alert">>
       /\ ~Did("rho_check") /\ ~Did("energy") /\ ~Did("commit")
       /\ pc = "idle" /\ result = "false"

C7_Witness ==
    /\ Did("drift") /\ DriftAlertRaised(window)
    /\ rho >= MAX_SPECTRAL_RADIUS /\ rho >= config.rho_max
    /\ result = "false"

\* C8: after an invocation has returned false, the drift window (state that
\* outlives the cycle and is not the event log) equals its value at the start
\* of the invocation.
C8_FailureLeavesWindow ==
    (pc = "idle" /\ result = "false") => window = pre.window

----------------------------------------------------------------------------
\* Specification SpecVerify: direct calls of smt_verifier.verify on a shared
\* proof cache

verifyUnchanged == <<pc, started, result, cycles, events, logStart, pre, rho,
                     verdict, window, counters, paused, pauseHist, config,
                     configFile, energyEnabled, diff, smt, mon, store,
                     probe, plan, planIn, planPc, planCache, planCall,
                     scope, proc, http, elog, est, upd>>

\* the (diff, charter_hash) arguments of the direct calls: every text under
\* the charter's hash, two of them also under the hash of another charter
VerifyInputs ==
    (Formulas \X {CHARTER_HASH}) \cup ({SmtVars, SmtMalformed} \X {OtherHash})

\* one call verify(f, h); getOk / setOk: the Redis read / write succeeds
VerifyCall ==
    /\ \E in \in VerifyInputs, getOk \in BOOLEAN, setOk \in BOOLEAN :
        LET f == in[1]
            h == in[2]
        IN
        \E check_result \in (IF ParseOk(f) THEN SolverCheck(f) ELSE {"none"}) :
            LET r == verify(f, h, cache, getOk, setOk, check_result)
            IN  /\ cache' = r.cache
                /\ call' = [formula |-> f, hash |-> h, raised |-> r.raised,
                            value |-> r.value, check |-> r.check,
                            parsed |-> r.parsed, getOk |-> getOk,
                            setOk |-> setOk, tick |-> 1 - call.tick]
    /\ UNCHANGED verifyUnchanged

\* a cache entry reaches its TTL (setex(key, TTL, value))
CacheExpire ==
    /\ \E k \in CacheKeys :
        /\ cache[k] # NoEntry
        /\ cache' = [cache EXCEPT ![k] = NoEntry]
    /\ UNCHANGED call
    /\ UNCHANGED verifyUnchanged

NextVerify == VerifyCall \/ CacheExpire

SpecVerify == Init /\ [][NextVerify]_vars

\* the entry the cache holds under the key of the last call
CallEntry == cache[_cache_key(call.formula, call.hash)]

\* the last call asked the solver
Solved == call.check # "none"

----------------------------------------------------------------------------
\* diff_builder.py

MaxDiffLines == 3

\* lines a unified diff is made of
DiffLines == {
    "diff --git a/t.py b/t.py",
    "+++ b/eval.py",
    "@@ -1,2 +1,3 @@",
    " pass",
    "",
    "+print('hi')",
    "+eval('x')",
    "-eval('x')",
    "-def foo(a, b):",
    "+def bar(a, b):",
    "+def foo(a):",
    "+def foo_v2(a):" }

\* parse_unified_diff, lines 153-191: the branch of the if/elif chain a line takes
LineKind(line) ==
    CASE line = "diff --git a/t.py b/t.py" -> "git"
      [] line = "@@ -1,2 +1,3 @@" -> "hunk"
      [] line \in {"+print('hi')", "+eval('x')", "+def bar(a, b):",
                   "+def foo(a):", "+def foo_v2(a):"} -> "+"
      [] line \in {"-eval('x')", "-def foo(a, b):"} -> "-"
      [] line = " pass" -> " "
      [] OTHER -> "skip"         \* "+++ ..." headers, blank lines

\* content = line[1:]
Content(line) ==
    CASE line = "+print('hi')" -> "print('hi')"
      [] line \in {"+eval('x')", "-eval('x')"} -> "eval('x')"
      [] line = "-def foo(a, b):" -> "def foo(a, b):"
      [] line = "+def bar(a, b):" -> "def bar(a, b):"
      [] line = "+def foo(a):" -> "def foo(a):"
      [] line = "+def foo_v2(a):" -> "def foo_v2(a):"
      [] line = "+++ b/eval.py" -> "++ b/eval.py"
      [] line = " pass" -> "pass"
      [] OTHER -> ""

\* some pattern of DEFAULT_FORBIDDEN_PATTERNS matches the text (here \beval\b)
MatchesForbidden(content) == content \in {"eval('x')", "++ b/eval.py"}

\* function_pattern / enhanced_pattern: name, argument names, "args|returns"
NoDef == [name |-> "", args |-> <<>>, full_sig |-> ""]
DefOf(content) ==
    CASE content = "def foo(a, b):" ->
            [name |-> "foo", args |-> <<"a", "b">>, full_sig |-> "a, b|"]
      [] content = "def bar(a, b):" ->
            [name |-> "bar", args |-> <<"a", "b">>, full_sig |-> "a, b|"]
      [] content = "def foo(a):" ->
            [name |-> "foo", args |-> <<"a">>, full_sig |-> "a|"]
      [] content = "def foo_v2(a):" ->
            [name |-> "foo_v2", args |-> <<"a">>, full_sig |-> "a|"]
      [] OTHER -> NoDef

\* old_name in new_name or new_name in old_name or _names_similar(...)
NamesRelated(n1, n2) == {n1, n2} = {"foo", "foo_v2"}

\* not diff_text.strip(): the text has only whitespace
IsBlank(d) == \A i \in DOMAIN d : d[i] = ""

\* the contents of the added ("+") or removed ("-") lines, in order
RECURSIVE LinesOf(_, _)
LinesOf(d, kind) ==
    IF d = <<>> THEN <<>>
    ELSE IF LineKind(Head(d)) = kind
         THEN <<Content(Head(d))>> \o LinesOf(Tail(d), kind)
         ELSE LinesOf(Tail(d), kind)

\* a dict filled in line order: keys in first-insertion order
RECURSIVE DictKeys(_, _)
DictKeys(lines, seen) ==
    IF lines = <<>> THEN <<>>
    ELSE LET n == DefOf(Head(lines)).name
         IN  IF n = "" \/ n \in seen THEN DictKeys(Tail(lines), seen)
             ELSE <<n>> \o DictKeys(Tail(lines), seen \cup {n})

\* ... and the value of a key: the definition on the last line that sets it
DictValue(lines, n) ==
    LET idx == {i \in DOMAIN lines : DefOf(lines[i]).name = n}
    IN  DefOf(lines[CHOOSE i \in idx : \A j \in idx : j <= i])

\* _detect_function_renames, lines 244-252: same signature, different name
RECURSIVE RenameLoop1(_, _, _, _, _)
RenameLoop1(i, removed, added, renames, used) ==
    IF i > Len(DictKeys(removed, {})) THEN [renames |-> renames, used |-> used]
    ELSE LET old == DictKeys(removed, {})[i]
             news == DictKeys(added, {})
             hits == {j \in DOMAIN news :
                        /\ DictValue(removed, old).full_sig
                              = DictValue(added, news[j]).full_sig
                        /\ old # news[j]
                        /\ news[j] \notin used
                        /\ DictValue(removed, old).args # <<>>}
         IN  IF hits = {} THEN RenameLoop1(i + 1, removed, added, renames, used)
             ELSE LET j == CHOOSE j \in hits : \A k \in hits : j <= k
                  IN  RenameLoop1(i + 1, removed, added,
                                  renames \cup {<<old, news[j]>>},
                                  used \cup {news[j]})

\* lines 256-276: same name with another signature, or related names
RECURSIVE RenameLoop2(_, _, _, _, _)
RenameLoop2(i, removed, added, renames, used) ==
    IF i > Len(DictKeys(removed, {})) THEN renames
    ELSE LET old == DictKeys(removed, {})[i]
             news == DictKeys(added, {})
             hits == {j \in DOMAIN news :
                        /\ DictValue(removed, old).full_sig
                              # DictValue(added, news[j]).full_sig
                        /\ news[j] \notin used
                        /\ old \notin {r[1] : r \in renames}
                        /\ (old = news[j] \/ NamesRelated(old, news[j]))}
         IN  IF hits = {} THEN RenameLoop2(i + 1, removed, added, renames, used)
             ELSE LET j == CHOOSE j \in hits : \A k \in hits : j <= k
                  IN  RenameLoop2(i + 1, removed, added,
                                  renames \cup {<<old, news[j]>>},
                                  used \cup {news[j]})

\* function_renames of the DiffAST: pairs <<old_name, new_name>>
function_renames(d) ==
    LET removed == LinesOf(d, "-")
        added == LinesOf(d, "+")
        first == RenameLoop1(1, removed, added, {}, {})
    IN  RenameLoop2(1, removed, added, first.renames, first.used)

\* _find_forbidden_violations: added lines a forbidden pattern matches
_find_forbidden_violations(d) ==
    {i \in DOMAIN LinesOf(d, "+") : MatchesForbidden(LinesOf(d, "+")[i])}

\* _find_goal_preservation_violations: renames whose argument names differ
_find_goal_preservation_violations(d) ==
    {r \in function_renames(d) :
        DictValue(LinesOf(d, "-"), r[1]).args
            # DictValue(LinesOf(d, "+"), r[2]).args}

\* SMTDiffBuilder.build_smt_formula
build_smt_formula(d) ==
    IF IsBlank(d) THEN "(assert true)"
    ELSE IF _find_forbidden_violations(d) # {}
            \/ _find_goal_preservation_violations(d) # {}
         THEN "(assert false)"
         ELSE "(assert true)"

\* build_smt_diff(diff_text)
build_smt_diff(d) == build_smt_formula(d)

----------------------------------------------------------------------------
\* Specification SpecDiff: a diff text is written line by line and handed to
\* build_smt_diff

diffUnchanged == <<pc, started, result, cycles, events, logStart, pre, rho,
                   verdict, window, counters, paused, pauseHist, config,
                   configFile, energyEnabled, cache, call, mon, store,
                   probe, plan, planIn, planPc, planCache, planCall, scope,
                   proc, http, elog, est, upd>>

\* one more line of diff text
AddDiffLine ==
    /\ Len(diff) < MaxDiffLines
    /\ \E line \in DiffLines : diff' = Append(diff, line)
    /\ smt' = "-"
    /\ UNCHANGED diffUnchanged

\* smt = build_smt_diff(diff)
BuildSmtDiff ==
    /\ smt = "-"
    /\ smt' = build_smt_diff(diff)
    /\ UNCHANGED diff
    /\ UNCHANGED diffUnchanged

NextDiff == AddDiffLine \/ BuildSmtDiff

SpecDiff == Init /\ [][NextDiff]_vars

\* the diff has an added line (a "+" line that is no "+++" header) that a
\* forbidden pattern matches
HasForbiddenAddition(d) ==
    \E i \in DOMAIN d : LineKind(d[i]) = "+" /\ MatchesForbidden(Content(d[i]))

\* the diff has a rename whose argument sequence differs
HasSignatureChangingRename(d) == _find_goal_preservation_violations(d) # {}

\* C10: build_smt_diff returns "(assert false)" when the diff has no
\* forbidden-pattern violation and no signature-changing rename (the empty
\* diff included), and "(assert true)" when it has at least one.
C10_SafeDiffAssertsFalse ==
    smt # "-" =>
        smt = (IF HasForbiddenAddition(diff) \/ HasSignatureChangingRename(diff)
               THEN "(assert true)" ELSE "(assert false)")

----------------------------------------------------------------------------
\* Proof-cache properties (SpecVerify)

\* this step is a call of verify
IsVerifyStep == call'.tick # call.tick

\* this step is a call of verify with the arguments of the call before it,
\* Redis reachable in both calls and the entry not expired in between
IsRepeatedCall ==
    /\ IsVerifyStep
    /\ call # NoCall
    /\ call'.formula = call.formula /\ call'.hash = call.hash
    /\ call.getOk /\ call.setOk /\ call'.getOk /\ call'.setOk
    /\ CallEntry # NoEntry

\* C11: with the cache available, two consecutive verify(o, h) calls have the
\* same outcome (equal verdicts and counterexamples, or both raise) and the
\* second call neither parses nor asks the solver.
C11_SecondCallSameOutcome ==
    [][IsRepeatedCall =>
          /\ call'.raised = call.raised
          /\ call'.value = call.value
          /\ ~call'.parsed /\ call'.check = "none"]_vars

\* the proof cache with no entry
EmptyCache == [k \in CacheKeys |-> NoEntry]

\* the last call met a Redis failure: the read failed, or the read missed and
\* the write that followed failed
CacheFailed ==
    /\ call # NoCall
    /\ \/ ~call.getOk
       \/ call.parsed /\ ~call.setOk

C13_HashesCachedApart ==
    [][\A h1 \in Hashes :
          (/\ IsVerifyStep
           /\ call'.hash # h1
           /\ <<call'.formula, h1>> \in VerifyInputs)
          => LET key1 == _cache_key(call'.formula, h1)
                 key2 == _cache_key(call'.formula, call'.hash)
             IN  /\ key1 # key2
                 /\ cache'[key1] = cache[key1]
                 /\ (call'.getOk /\ cache[key2] = NoEntry) =>
                       /\ call'.parsed
                       /\ ParseOk(call'.formula) =>
                             call'.check \in SolverCheck(call'.formula)]_vars

\* the obligation has been solved under one hash and then under the other:
\* both keys hold a verdict and the last call asked the solver
C13_Witness ==
    /\ call.formula = SmtVars /\ call.hash = OtherHash
    /\ call.getOk /\ call.check = "sat"
    /\ cache[_cache_key(SmtVars, CHARTER_HASH)] = JsonDumps(Verdict(TRUE, "x=11"))
    /\ cache[_cache_key(SmtVars, OtherHash)] = JsonDumps(Verdict(TRUE, "x=11"))

----------------------------------------------------------------------------
\* Specification SpecDrift: a DriftMonitor is constructed, fed and reset

driftUnchanged == <<pc, started, result, cycles, events, logStart, pre, rho,
                    verdict, window, counters, paused, pauseHist, config,
                    configFile, energyEnabled, cache, call, diff, smt, store,
                    probe, plan, planIn, planPc, planCache, planCall,
                    scope, proc, http, elog, est, upd>>

\* constructor arguments <<window_size, mean_threshold, max_threshold>>
\* (thresholds in hundredths); the first are the defaults
MonitorArgs == {<<10, 5, 10>>, <<2, 5, 10>>, <<3, 6, 12>>, <<2, 0, 0>>,
                <<1, 5, 10>>, <<2, -1, -1>>}

\* spectral radii fed to a monitor (hundredths)
RhoSamples == {10, 15, 22, 35, 47}

\* DriftMonitor.__init__: ValueError when window_size < 2
NewMonitor ==
    /\ \E a \in MonitorArgs :
        IF a[1] < 2 THEN UNCHANGED mon
        ELSE mon' = DriftMonitor(a[1], a[2], a[3])
    /\ UNCHANGED driftUnchanged

\* monitor.record(rho)
Record ==
    /\ Len(mon.values) < MaxSamples \/ Len(mon.values) = mon.window_size
    /\ \E rho_ \in RhoSamples : mon' = record(mon, rho_)
    /\ UNCHANGED driftUnchanged

\* monitor.reset()
Reset ==
    /\ mon' = reset(mon)
    /\ UNCHANGED driftUnchanged

NextDrift == NewMonitor \/ Record \/ Reset

SpecDrift == Init /\ [][NextDrift]_vars

\* number of consecutive pairs in the monitor's window
Pairs == Len(mon.values) - 1

\* |values[i+1] - values[i]| for the monitor's window
Gap(i) == IF mon.values[i + 1] >= mon.values[i]
          THEN mon.values[i + 1] - mon.values[i]
          ELSE mon.values[i] - mon.values[i + 1]

RECURSIVE GapSum(_)
GapSum(n) == IF n = 0 THEN 0 ELSE Gap(n) + GapSum(n - 1)

C15_RepeatedValueNoAlert ==
    [][(/\ mon'.op = "record"
        /\ mon.op = "record" /\ ~mon.alerted
        /\ mon.mean_threshold >= 0 /\ mon.max_threshold >= 0
        /\ mon'.last = mon.last
        /\ mon'.window_size = mon.window_size)
       => ~mon'.raised]_vars

\* the value was repeated on a full window of a monitor with zero thresholds
\* and on a partly filled window of the default monitor
C15_Witness ==
    /\ mon.op = "record" /\ ~mon.alerted /\ mon.wasFull
    /\ mon.max_threshold = 0 /\ mon.mean_threshold = 0
    /\ Len(mon.values) = mon.window_size
    /\ mon.values[Len(mon.values)] = mon.values[Len(mon.values) - 1]

\* C16: the window holds at most window_size values, the most recently
\* recorded ones since the last reset in recording order: a record appends
\* its value and evicts exactly the oldest value of a full window, also when
\* it raises DriftAlert; reset empties the window.
C16_WindowHoldsLatest ==
    [][/\ Len(mon'.values) <= mon'.window_size
       /\ (mon'.op = "reset" /\ mon' # mon) => mon'.values = <<>>
       /\ (mon'.op = "record" /\ mon' # mon) =>
             LET kept == IF Len(mon.values) = mon.window_size
                         THEN Len(mon.values) - 1 ELSE Len(mon.values)
             IN  /\ Len(mon'.values) = kept + 1
                 /\ mon'.values[kept + 1] = mon'.last
                 /\ \A i \in 1..kept :
                       mon'.values[i] = mon.values[Len(mon.values) - kept + i]
      ]_vars

\* a record on a full window raised and evicted the oldest value
C16_Witness ==
    /\ mon.op = "record" /\ mon.raised /\ mon.wasFull
    /\ mon.window_size = 3
    /\ mon.values = <<15, 22, 47>>

Scenario == <<10, 15, 22, 35, 47>>

\* the default monitor has been fed the first k values of the scenario
FedScenario(k) ==
    /\ mon.window_size = window_size
    /\ mon.mean_threshold = mean_threshold
    /\ mon.max_threshold = max_threshold
    /\ mon.op = "record"
    /\ mon.values = SubSeq(Scenario, 1, k)

----------------------------------------------------------------------------
\* Specification SpecConfig: callers of agent.core.config_store

configUnchanged == <<pc, started, result, cycles, events, logStart, pre, rho,
                     verdict, window, counters, paused, pauseHist,
                     energyEnabled, cache, call, diff, smt, mon, probe,
                     plan, planIn, planPc, planCache, planCall, scope,
                     proc, http, elog, est, upd>>

\* contents of the YAML file: a mapping, or
FileAbsent == [absent |-> 1]              \* no file at _config_path
FileUnparsable == [yaml_error |-> 1]      \* a text yaml.safe_load rejects
FileInvalid == [rho_max |-> 150, energy_multiplier |-> 20]
FilePartial == [rho_max |-> 50]
FileUnknownKey == [rho_max |-> 50, rho_min |-> 10]

FileContents == {FileAbsent, FileUnparsable, FileInvalid, FilePartial,
                 FileUnknownKey, DefaultConfig}

\* the update dicts handed to update_config
StoreUpdates == {[rho_max |-> 60], [rho_max |-> 150],
                 [energy_multiplier |-> 30], [energy_multiplier |-> 50],
                 [rho_min |-> 10],
                 [rho_max |-> 150, energy_multiplier |-> 20]}

\* _save_config: the file is replaced by the dump of _config, or the write
\* fails, the file stays and the error is raised again
_save_config(file, c, saveOk) == IF saveOk THEN c ELSE file

\* _config names a new object: a held get_config() result no longer is it
Rebound(held) == IF held = "alias" THEN "stale" ELSE held

StoreCall(op_, failed_, reason_, loadPc_, held_) ==
    [op |-> op_, failed |-> failed_, reason |-> reason_,
     preConfig |-> config, preFile |-> configFile,
     loadPc |-> loadPc_, held |-> held_]

\* update_config(updates), under _config_lock
StoreUpdate ==
    /\ \E updates \in StoreUpdates, saveOk \in BOOLEAN :
        LET new_values == Merge(config, updates)
        IN  IF DOMAIN new_values # ConfigFields
            THEN \* Config(**new_values): TypeError
                 /\ UNCHANGED <<config, configFile>>
                 /\ store' = StoreCall("update", TRUE, "unknown-field",
                                       store.loadPc, store.held)
            ELSE IF ~ConfigValid(new_values)
            THEN \* new_config.validate(): ValueError
                 /\ UNCHANGED <<config, configFile>>
                 /\ store' = StoreCall("update", TRUE, "validation",
                                       store.loadPc, store.held)
            ELSE /\ config' = new_values
                 /\ configFile' = _save_config(configFile, new_values, saveOk)
                 /\ store' = StoreCall("update", ~saveOk,
                                       IF saveOk THEN "" ELSE "persistence",
                                       store.loadPc, Rebound(store.held))
    /\ UNCHANGED configUnchanged

\* load_config, lines 138-157 but for the validate() call: the file is read
\* and _config is assigned from it; no lock is taken
LoadRead ==
    /\ store.loadPc = "idle"
    /\ \E saveOk \in BOOLEAN :
        IF configFile = FileAbsent
        THEN /\ config' = DefaultConfig
             /\ configFile' = _save_config(configFile, DefaultConfig, saveOk)
             /\ store' = StoreCall("load", ~saveOk,
                                   IF saveOk THEN "" ELSE "persistence",
                                   "idle", Rebound(store.held))
        ELSE IF \/ configFile = FileUnparsable
                \/ ~(DOMAIN configFile \subseteq ConfigFields)
        THEN \* yaml.safe_load or Config(**data) raises: defaults are saved
             /\ config' = DefaultConfig
             /\ configFile' = _save_config(configFile, DefaultConfig, saveOk)
             /\ store' = StoreCall("load", ~saveOk, "bad-file", "idle",
                                   Rebound(store.held))
        ELSE /\ config' = Merge(DefaultConfig, configFile)
             /\ UNCHANGED configFile
             /\ store' = StoreCall("load-read", FALSE, "", "assigned",
                                   Rebound(store.held))
    /\ UNCHANGED configUnchanged

\* load_config, line 143 on: _config.validate(), and on failure the defaults
LoadValidate ==
    /\ store.loadPc = "assigned"
    /\ \E saveOk \in BOOLEAN :
        IF ConfigValid(config)
        THEN /\ UNCHANGED <<config, configFile>>
             /\ store' = StoreCall("load", FALSE, "", "idle", store.held)
        ELSE /\ config' = DefaultConfig
             /\ configFile' = _save_config(configFile, DefaultConfig, saveOk)
             /\ store' = StoreCall("load", ~saveOk, "bad-file", "idle",
                                   Rebound(store.held))
    /\ UNCHANGED configUnchanged

\* the file at _config_path is written or removed from outside the process
EditFile ==
    /\ \E f \in FileContents :
        /\ f # configFile
        /\ configFile' = f
    /\ store' = StoreCall("edit", FALSE, "", store.loadPc, store.held)
    /\ UNCHANGED config
    /\ UNCHANGED configUnchanged

\* cfg = get_config(): the caller holds what the call returned, _config itself
GetConfig ==
    /\ store' = StoreCall("get", FALSE, "", store.loadPc, "alias")
    /\ UNCHANGED <<config, configFile>>
    /\ UNCHANGED configUnchanged

\* cfg.rho_max = v or cfg.energy_multiplier = v on the held object
MutateHeld ==
    /\ store.held # "none"
    /\ \E field \in ConfigFields, v \in {30, 150} :
        IF store.held = "alias"
        THEN config' = [config EXCEPT ![field] = v]
        ELSE UNCHANGED config
    /\ store' = StoreCall("mutate", FALSE, "", store.loadPc, store.held)
    /\ UNCHANGED configFile
    /\ UNCHANGED configUnchanged

NextConfig ==
    \/ StoreUpdate
    \/ LoadRead
    \/ LoadValidate
    \/ EditFile
    \/ GetConfig
    \/ MutateHeld

SpecConfig == Init /\ [][NextConfig]_vars

\* C18: after an update_config call that failed for any reason (validation,
\* unknown field name, persistence), get_config() equals what it was before
\* the call and the persisted file is unchanged.
C18_FailedUpdateChangesNothing ==
    (store.op = "update" /\ store.failed) =>
        /\ config = store.preConfig
        /\ configFile = store.preFile

\* C19: after any sequence and interleaving of load_config and update_config
\* calls, the config get_config() returns satisfies 0 < rho_max < 1 and
\* 1 <= energy_multiplier <= 4, and a load of an unparsable or invalid file
\* (that returned) leaves the defaults in memory and on disk.
C19_ConfigAlwaysValid ==
    store.held = "none" =>
        /\ ConfigValid(config)
        /\ (store.op = "load" /\ store.reason = "bad-file" /\ ~store.failed) =>
              /\ config = DefaultConfig
              /\ configFile = DefaultConfig

\* C20: changing a field of the object get_config returned does not change
\* what later get_config calls return nor what a later update persists.
C20_GetConfigReturnsSnapshot ==
    [][store'.op = "mutate" => config' = config]_vars

----------------------------------------------------------------------------
\* Specification SpecSurfaces: one (rho_max, energy_multiplier) pair is handed
\* to the three update surfaces

surfacesUnchanged == <<pc, started, result, cycles, events, logStart, pre, rho,
                       verdict, window, counters, paused, pauseHist, config,
                       configFile, energyEnabled, cache, call, diff, smt, mon,
                       store, plan, planIn, planPc, planCache, planCall,
                       scope, proc, http, elog, est, upd>>

\* values tried: rho_max in hundredths, energy_multiplier in tenths
RhoMaxTried == {-10, 0, 1, 50, 90, 99, 100, 101, 150, 1000}
EnergyTried == {-10, 0, 5, 9, 10, 20, 40, 41, 50, 100}

\* POST /config body, config_store.update_config(dict) and
\* config.update_config(rho_max, energy_multiplier) with the same pair
TryPair ==
    /\ \E r \in RhoMaxTried, e \in EnergyTried :
        probe' = [rho_max |-> r, energy_multiplier |-> e, tried |-> TRUE,
                  api |-> ConfigUpdateReqAccepts(r, e),
                  store |-> UpdateAccepted(DefaultConfig,
                               [rho_max |-> r, energy_multiplier |-> e]),
                  legacy |-> RaftConfigUpdateAccepts(r, e)]
    /\ UNCHANGED surfacesUnchanged

NextSurfaces == TryPair

SpecSurfaces == Init /\ [][NextSurfaces]_vars

\* C21: for every pair (rho_max, energy_multiplier) the operator /config
\* request model accepts it iff config_store.update_config accepts it iff
\* config.update_config accepts it, the accepted set being 0 < rho_max < 1
\* and 1 <= energy_multiplier <= 4.
C21_SurfacesAcceptSameSet ==
    probe.tried =>
        LET inRange == /\ 0 < probe.rho_max /\ probe.rho_max < 100
                       /\ 10 <= probe.energy_multiplier
                       /\ probe.energy_multiplier <= 40
        IN  /\ probe.api <=> inRange
            /\ probe.store <=> inRange
            /\ probe.legacy <=> inRange


(***************************************************************************)
(* Plan models (agent/core/plan_models.py, raft/agent/core/plan_models.py) *)
(* and the plan prover (agent/core/plan_smt.py).  A string is a sequence   *)
(* of tokens: separators ("/", "\\", "://") and names.  No token holds a   *)
(* NUL or surrounding whitespace, so the NUL check and strip() of the      *)
(* validators never act on these inputs.                                   *)
(***************************************************************************)
MaxSteps == 2

planUnchanged == <<pc, started, result, cycles, events, logStart, pre, rho,
                   verdict, window, counters, paused, pauseHist, config,
                   configFile, energyEnabled, cache, call, diff, smt, mon,
                   store, probe, scope, proc, http, elog, est, upd>>

Urls == { <<"https", "://", "example.com">>,
          <<"HTTP", "://", "example.com">>,
          <<"http", "://", "localhost">>,
          <<"ftp", "://", "example.com", "/a">>,
          <<"https", "://", "", "/path">> }

Paths == { <<"artifacts", "/", "a.txt">>,
           <<"artifacts", "\\", "notes", "\\", "a.txt">>,
           <<".", "/", "artifacts", "/", "a.txt">>,
           <<"artifacts", "/", "dir", "/">>,
           <<"artifacts", "/", "a..b.txt">>,
           <<"artifacts">>,
           <<"/", "etc", "/", "passwd">>,
           <<"artifacts", "/", "..", "/", "x">>,
           <<"not_artifacts", "/", "x.txt">>,
           <<"artifacts", "/", "c:", "/", "x">> }

Targets == { <<"governor.one_cycle">>, <<"governor.two_cycles">> }

ALLOWED_RUN_TARGETS == { <<"governor.one_cycle">> }

RawArgs(op) ==
    CASE op = "Fetch" -> Urls
      [] op = "WriteFile" -> Paths
      [] op = "Run" -> Targets

\* What the tokens are as text.
HasDot(tok) == tok \in {"example.com", "a.txt", "x.txt", ".",
                        "..", "a..b.txt", "governor.one_cycle",
                        "governor.two_cycles"}
HasDotDot(tok) == tok \in {"..", "a..b.txt"}
EndsWithColon(tok) == tok = "c:"
Lower(tok) == IF tok = "HTTP" THEN "http" ELSE tok

StartsWith(str, prefix) ==
    /\ Len(str) >= Len(prefix)
    /\ SubSeq(str, 1, Len(prefix)) = prefix

ContainsDotDot(str) == \E i \in DOMAIN str : HasDotDot(str[i])

ContainsColonThen(str, sep) ==
    \E i \in 1..(Len(str) - 1) : EndsWithColon(str[i]) /\ str[i + 1] = sep

\* value.replace("\\", "/")
ReplaceBackslashes(str) ==
    [i \in DOMAIN str |-> IF str[i] = "\\" THEN "/" ELSE str[i]]

\* pathlib: the components of a path; empty and "." components are dropped,
\* a leading separator makes the path absolute and is its first part.
RECURSIVE Components(_)
Components(str) ==
    IF str = <<>> THEN <<>>
    ELSE IF Head(str) \in {"/", "."} THEN Components(Tail(str))
    ELSE <<Head(str)>> \o Components(Tail(str))

is_absolute(str) == str # <<>> /\ Head(str) = "/"

PurePathParts(str) ==
    IF is_absolute(str) THEN <<"/">> \o Components(str) ELSE Components(str)

\* str(PurePosixPath(...)) of a relative path
RECURSIVE JoinParts(_)
JoinParts(parts) ==
    IF Len(parts) <= 1 THEN parts
    ELSE <<Head(parts), "/">> \o JoinParts(Tail(parts))

Rejected == [ok |-> FALSE, value |-> <<>>]
Accepted(value) == [ok |-> TRUE, value |-> value]

\* agent/core/plan_models.py, Fetch: urlparse lower-cases the scheme
_validate_http_https(value) ==
    LET scheme == IF Len(value) >= 2 /\ value[2] = "://"
                  THEN Lower(value[1]) ELSE ""
        netloc == IF Len(value) >= 3 /\ value[2] = "://" THEN value[3] ELSE ""
    IN  IF scheme \notin {"http", "https"} \/ netloc = ""
        THEN Rejected ELSE Accepted(value)

\* agent/core/plan_models.py, WriteFile: the checks are made on the parts,
\* the value kept is the string with its backslashes replaced
_validate_artifacts_relative(value) ==
    LET normalized == ReplaceBackslashes(value)
        parts == PurePathParts(normalized)
    IN  IF is_absolute(normalized) THEN Rejected
        ELSE IF ".." \in Range(parts) THEN Rejected
        ELSE IF parts = <<>> \/ parts[1] # "artifacts" THEN Rejected
        ELSE IF Len(parts) = 1 THEN Rejected
        ELSE Accepted(normalized)

\* agent/core/plan_models.py, Run
_validate_target(value) ==
    IF value \notin ALLOWED_RUN_TARGETS THEN Rejected ELSE Accepted(value)

\* raft/agent/core/plan_models.py
_normalize_and_validate_artifact_path(value) ==
    LET replaced == ReplaceBackslashes(value)
        parts == PurePathParts(replaced)
    IN  IF replaced # <<>> /\ Last(replaced) = "/" THEN Rejected
        ELSE IF is_absolute(replaced) THEN Rejected
        ELSE IF parts = <<>> THEN Rejected
        ELSE IF Len(parts) < 2 \/ parts[1] # "artifacts" THEN Rejected
        ELSE IF ".." \in Range(parts) THEN Rejected
        ELSE Accepted(JoinParts(parts))

\* Construction of a step by the models of agent.core.plan_models
StepModel(op, raw) ==
    CASE op = "Fetch" -> _validate_http_https(raw)
      [] op = "WriteFile" -> _validate_artifacts_relative(raw)
      [] op = "Run" -> _validate_target(raw)


\* plan_smt.py, the Z3 encoding of one step: TRUE iff the step makes its
\* violation disjunct true.  The formula is ground, so its model is this
\* evaluation.
StepViolation(step) ==
    LET url == step.arg
        path == step.arg
        scheme_ok == \/ StartsWith(url, <<"http", "://">>)
                     \/ StartsWith(url, <<"https", "://">>)
        idx == IF \E i \in DOMAIN url : url[i] = "://"
               THEN CHOOSE i \in DOMAIN url :
                        /\ url[i] = "://"
                        /\ \A j \in 1..(i - 1) : url[j] # "://"
               ELSE 0
        has_host_dot == /\ idx > 0
                        /\ \E j \in (idx + 1)..Len(url) : HasDot(url[j])
        starts_artifacts == \/ StartsWith(path, <<"artifacts", "/">>)
                            \/ StartsWith(path, <<"artifacts", "\\">>)
        is_relative == /\ ~StartsWith(path, <<"/">>)
                       /\ ~ContainsColonThen(path, "/")
                       /\ ~ContainsColonThen(path, "\\")
        no_dotdot == ~ContainsDotDot(path)
    IN  CASE step.op = "Fetch" -> ~(scheme_ok /\ has_host_dot)
          [] step.op = "WriteFile" ->
                 ~(is_relative /\ no_dotdot /\ starts_artifacts)
          [] step.op = "Run" -> step.arg \notin ALLOWED_RUN_TARGETS
          [] OTHER -> FALSE

\* plan_smt.py, the Python duplicate of the checks, for one step
PythonViolation(step) ==
    LET url == step.arg
        norm == ReplaceBackslashes(step.arg)
        is_relative == ~StartsWith(norm, <<"/">>) /\ ~ContainsColonThen(norm, "/")
        no_dotdot == ~ContainsDotDot(norm)
        starts_artifacts == StartsWith(norm, <<"artifacts", "/">>)
    IN  CASE step.op = "Fetch" ->
                 ~ /\ \/ StartsWith(url, <<"http", "://">>)
                      \/ StartsWith(url, <<"https", "://">>)
                   /\ \E i \in DOMAIN url :
                          /\ url[i] = "://"
                          /\ \A j \in 1..(i - 1) : url[j] # "://"
                          /\ \E j \in (i + 1)..Len(url) : HasDot(url[j])
          [] step.op = "WriteFile" ->
                 ~(is_relative /\ no_dotdot /\ starts_artifacts)
          [] step.op = "Run" -> step.arg \notin ALLOWED_RUN_TARGETS
          [] OTHER -> TRUE

ViolatedField(op) ==
    CASE op = "Fetch" -> "url"
      [] op = "WriteFile" -> "path"
      [] op = "Run" -> "target"
      [] OTHER -> "op"

\* Step indices are Python's: the first step has index 0.  NoCounterexample
\* stands for None.
_first_violation_python(steps) ==
    LET bad == {i \in DOMAIN steps : PythonViolation(steps[i])}
    IN  IF bad = {} THEN NoCounterexample
        ELSE LET i == CHOOSE k \in bad : \A l \in bad : k <= l
             IN  [step_idx |-> i - 1, op |-> steps[i].op,
                  field |-> ViolatedField(steps[i].op),
                  value |-> steps[i].arg]

\* solver.check() on Or(*violations), or BoolVal(False) for no steps; the
\* 1.5 s timeout can end the call with unknown
PlanCheck(steps, timedOut) ==
    IF timedOut THEN "unknown"
    ELSE IF \E i \in DOMAIN steps : StepViolation(steps[i]) THEN "sat"
    ELSE "unsat"

PlanReturn(passed_, ce, via_) ==
    [done |-> TRUE, raised |-> FALSE, passed |-> passed_,
     counterexample |-> ce, via |-> via_]

PlanRaise ==
    [done |-> TRUE, raised |-> TRUE, passed |-> FALSE,
     counterexample |-> NoCounterexample, via |-> "AttributeError"]


\* plan_smt._get_redis returns smt_verifier._get_redis(), a name that
\* smt_verifier.py does not define: the call raises AttributeError unless
\* the attribute was patched in (tests/conftest.py), to a client or to None.
GetRedisOutcomes == {"AttributeError", "None", "client"}

\* The model follows one Plan object: its construction step by step, then
\* the calls of verify_plan on it.
Building ==
    /\ \A c \in Callers : planPc[c] = "idle"
    /\ ~planCall.done
    /\ planCache = EmptyPlanCache

\* verify_plan takes a Plan object: the last construction made it.
Constructed ==
    \/ plan = <<>> /\ ~planIn.tried
    \/ planIn.tried /\ planIn.module = "agent.core" /\ planIn.accepted

PlanIn(module_, op_, raw_, v) ==
    [tried |-> TRUE, module |-> module_, op |-> op_, raw |-> raw_,
     accepted |-> v.ok, stored |-> v.value]

\* A step is constructed by the models of agent/core/plan_models.py and,
\* when valid, becomes the next step of the plan.
BuildStep ==
    /\ Building
    /\ Len(plan) < MaxSteps
    /\ \E op \in {"Fetch", "WriteFile", "Run"} : \E raw \in RawArgs(op) :
        LET v == StepModel(op, raw)
        IN  /\ planIn' = PlanIn("agent.core", op, raw, v)
            /\ plan' = IF v.ok THEN Append(plan, [op |-> op, arg |-> v.value])
                       ELSE plan
    /\ UNCHANGED <<planPc, planCache, planCall, planUnchanged>>

\* A WriteFile step (or a Fetch.save_as) is constructed by the models of
\* raft/agent/core/plan_models.py.
RaftWriteFile ==
    /\ Building
    /\ \E raw \in Paths :
        planIn' = PlanIn("raft.agent.core", "WriteFile", raw,
                         _normalize_and_validate_artifact_path(raw))
    /\ UNCHANGED <<plan, planPc, planCache, planCall, planUnchanged>>

\* verify_plan up to its first return or cache write: the lookup of the
\* verdict and, on a miss, the solver call.
Lookup(c) ==
    /\ planPc[c] = "idle"
    /\ Constructed
    /\ \E r \in GetRedisOutcomes, getOk \in BOOLEAN, timedOut \in BOOLEAN :
        LET cached == IF r = "client" /\ getOk THEN planCache.verdict ELSE ""
            res == PlanCheck(plan, timedOut)
            ce == _first_violation_python(plan)
        IN  IF r = "AttributeError"
            THEN /\ planCall' = PlanRaise
                 /\ UNCHANGED planPc
            ELSE IF cached = "1"
            THEN /\ planCall' = PlanReturn(TRUE, NoCounterexample, "hit")
                 /\ UNCHANGED planPc
            ELSE IF cached = "0"
            THEN /\ planPc' = [planPc EXCEPT ![c] = "get_counterexample"]
                 /\ UNCHANGED planCall
            ELSE IF r = "client"
            THEN /\ planPc' = [planPc EXCEPT ![c] =
                        IF res = "unsat" THEN "set_safe" ELSE "set_unsafe"]
                 /\ UNCHANGED planCall
            ELSE /\ planCall' = IF res = "unsat"
                        THEN PlanReturn(TRUE, NoCounterexample, "solved")
                        ELSE PlanReturn(FALSE, ce, "solved")
                 /\ UNCHANGED planPc
    /\ UNCHANGED <<plan, planIn, planCache, planUnchanged>>

\* cache hit "0": read key:counterexample; a missing blob or an exception
\* ends in `return False, None`
GetCounterexample(c) ==
    /\ planPc[c] = "get_counterexample"
    /\ \E getOk \in BOOLEAN :
        LET blob == IF getOk THEN planCache.counterexample
                    ELSE NoCounterexample
        IN  planCall' = PlanReturn(FALSE, blob, "hit")
    /\ planPc' = [planPc EXCEPT ![c] = "idle"]
    /\ UNCHANGED <<plan, planIn, planCache, planUnchanged>>

\* unsat: setex(key, "1"), exceptions swallowed
SetSafe(c) ==
    /\ planPc[c] = "set_safe"
    /\ \E setOk \in BOOLEAN :
        planCache' = IF setOk THEN [planCache EXCEPT !.verdict = "1"]
                     ELSE planCache
    /\ planCall' = PlanReturn(TRUE, NoCounterexample, "solved")
    /\ planPc' = [planPc EXCEPT ![c] = "idle"]
    /\ UNCHANGED <<plan, planIn, planUnchanged>>

\* sat or unknown: setex(key, "0"); an exception skips the second write
SetUnsafe(c) ==
    /\ planPc[c] = "set_unsafe"
    /\ \E setOk \in BOOLEAN :
        LET ce == _first_violation_python(plan)
        IN  /\ planCache' = IF setOk THEN [planCache EXCEPT !.verdict = "0"]
                            ELSE planCache
            /\ IF setOk /\ ce # NoCounterexample
               THEN /\ planPc' = [planPc EXCEPT ![c] = "set_counterexample"]
                    /\ UNCHANGED planCall
               ELSE /\ planPc' = [planPc EXCEPT ![c] = "idle"]
                    /\ planCall' = PlanReturn(FALSE, ce, "solved")
    /\ UNCHANGED <<plan, planIn, planUnchanged>>

\* setex(key:counterexample, json.dumps(counterexample))
SetCounterexample(c) ==
    /\ planPc[c] = "set_counterexample"
    /\ \E setOk \in BOOLEAN :
        planCache' = IF setOk
                     THEN [planCache EXCEPT !.counterexample =
                               _first_violation_python(plan)]
                     ELSE planCache
    /\ planCall' = PlanReturn(FALSE, _first_violation_python(plan), "solved")
    /\ planPc' = [planPc EXCEPT ![c] = "idle"]
    /\ UNCHANGED <<plan, planIn, planUnchanged>>

\* TTL_SECONDS: each entry expires on its own clock
PlanExpire ==
    /\ \/ /\ planCache.verdict # ""
          /\ planCache' = [planCache EXCEPT !.verdict = ""]
       \/ /\ planCache.counterexample # NoCounterexample
          /\ planCache' = [planCache EXCEPT
                               !.counterexample = NoCounterexample]
    /\ UNCHANGED <<plan, planIn, planPc, planCall, planUnchanged>>

NextPlan ==
    \/ BuildStep
    \/ RaftWriteFile
    \/ \E c \in Callers : Lookup(c)
    \/ \E c \in Callers : GetCounterexample(c)
    \/ \E c \in Callers : SetSafe(c)
    \/ \E c \in Callers : SetUnsafe(c)
    \/ \E c \in Callers : SetCounterexample(c)
    \/ PlanExpire

SpecPlan == Init /\ [][NextPlan]_vars

\* C22: verify_plan returns (true, none) for every plan that plan-model
\* validation accepted (every plan the model builds is such a plan).
C22_ValidatedPlanPasses ==
    planCall.done =>
        /\ ~planCall.raised
        /\ planCall.passed
        /\ planCall.counterexample = NoCounterexample


\* The contract of a step in the data model: the step's own validator
\* accepts the value the step holds.
SatisfiesContract(step) == StepModel(step.op, step.arg).ok

ReturnedUnsafe == planCall.done /\ ~planCall.raised /\ ~planCall.passed

\* C23: a returned counterexample names a step that violates its contract,
\* the violating field of that step, and no earlier step violates its own.
C23_CounterexampleIsFirstViolation ==
    (ReturnedUnsafe /\ planCall.counterexample # NoCounterexample) =>
        LET i == planCall.counterexample.step_idx + 1
        IN  /\ i \in DOMAIN plan
            /\ ~SatisfiesContract(plan[i])
            /\ planCall.counterexample.field = ViolatedField(plan[i].op)
            /\ \A j \in 1..(i - 1) : SatisfiesContract(plan[j])

\* C24: whenever verify_plan returns passed = false, the counterexample it
\* returns is not None.
C24_UnsafeHasCounterexample ==
    ReturnedUnsafe => planCall.counterexample # NoCounterexample

\* The components of a stored string, split at "/" with nothing dropped
RECURSIVE SplitAtSlash(_)
SplitAtSlash(str) ==
    IF str = <<>> THEN <<>>
    ELSE IF Head(str) = "/" THEN SplitAtSlash(Tail(str))
    ELSE <<Head(str)>> \o SplitAtSlash(Tail(str))

\* C25: a path stored in a validated step is relative, begins with the
\* component artifacts followed by at least one more, has no ".." component
\* and no backslash, and does not end with "/".
C25_StoredPathNormalized ==
    (planIn.tried /\ planIn.op = "WriteFile" /\ planIn.accepted) =>
        LET str == planIn.stored
            comps == SplitAtSlash(str)
        IN  /\ ~is_absolute(str)
            /\ Len(comps) >= 2
            /\ comps[1] = "artifacts"
            /\ ".." \notin Range(comps)
            /\ "\\" \notin Range(str)
            /\ Last(str) # "/"


(***************************************************************************)
(* energy_guard.py: one measure_block scope at a time, entered, run and    *)
(* left, while the energy counter advances.                                *)
(***************************************************************************)
MaxJoules == 41

energyUnchanged == <<pc, started, result, cycles, events, logStart, pre, rho,
                     verdict, window, counters, paused, pauseHist, config,
                     configFile, energyEnabled, cache, call, diff, smt, mon,
                     store, probe, plan, planIn, planPc, planCache, planCall,
                     proc, http, elog, est, upd>>

\* values of ENERGY_GUARD_ENABLED; "" is the unset variable
EnvValues == {"", "true", "false", "FALSE", "0"}

\* os.getenv("ENERGY_GUARD_ENABLED", "true").lower()
GetenvLower(env) ==
    CASE env = "" -> "true"
      [] env = "FALSE" -> "false"
      [] OTHER -> env

guard_disabled_Never(env) == FALSE
guard_disabled(env) == GetenvLower(env) = "false"

BodyExceptions == {"none", "ValueError", "SystemExit"}

APOPTOSIS_MESSAGE ==
    "Energy apoptosis triggered - consumption exceeds 2xHERMES baseline"

\* the with statement is entered: the generator runs up to its yield
EnterScope ==
    /\ scope.pc = "out"
    /\ \E env \in EnvValues :
        scope' = [NoScope EXCEPT
                    !.pc = "body", !.env = env, !.counter = scope.counter,
                    !.start_joules =
                        IF guard_disabled(env) THEN 0 ELSE scope.counter,
                    !.start_samples = IF guard_disabled(env) THEN 0 ELSE 1]
    /\ UNCHANGED energyUnchanged

\* the machine consumes energy while the body runs
Consume ==
    /\ scope.pc = "body"
    /\ \E j \in {1, 38} :
        /\ scope.counter + j <= MaxJoules
        /\ scope' = [scope EXCEPT !.counter = @ + j]
    /\ UNCHANGED energyUnchanged

\* the body ends, normally or by raising
BodyEnds ==
    /\ scope.pc = "body"
    /\ \E exc \in BodyExceptions :
        scope' = [scope EXCEPT !.pc = "finally", !.body = exc]
    /\ UNCHANGED energyUnchanged

\* the finally clause of the branch taken at entry, and what leaves the
\* with statement
Finally ==
    /\ scope.pc = "finally"
    /\ LET enabled == ~guard_disabled(scope.env)
           used_joules == scope.counter - scope.start_joules
           out == measure_block(enabled, used_joules, macs_estimate,
                                scope.body)
       IN  scope' = [scope EXCEPT
                !.pc = "exited",
                !.end_samples = IF enabled THEN @ + 1 ELSE @,
                !.checks = IF enabled THEN @ + 1 ELSE @,
                !.breach = enabled /\ BudgetBreached(used_joules,
                                                     macs_estimate),
                !.outcome = out,
                !.message = IF enabled /\ BudgetBreached(used_joules,
                                                         macs_estimate)
                            THEN APOPTOSIS_MESSAGE ELSE ""]
    /\ UNCHANGED energyUnchanged

\* the caller goes on after the scope (unless the process was halted)
LeaveScope ==
    /\ scope.pc = "exited"
    /\ scope.outcome # "SystemExit"
    /\ scope' = [NoScope EXCEPT !.counter = scope.counter]
    /\ UNCHANGED energyUnchanged

NextEnergy ==
    \/ EnterScope
    \/ Consume
    \/ BodyEnds
    \/ Finally
    \/ LeaveScope

SpecEnergy == Init /\ [][NextEnergy]_vars

\* C26: with the guard enabled, a scope that was left took one start
\* sample, one end sample and ran one budget check, whether or not the body
\* raised; on a breach what leaves the scope is the halt with the apoptosis
\* message, even if the body raised.
C26_OneCheckPerExit ==
    (scope.pc = "exited" /\ ~guard_disabled(scope.env)) =>
        /\ scope.start_samples = 1
        /\ scope.end_samples = 1
        /\ scope.checks = 1
        /\ BudgetBreached(scope.counter - scope.start_joules, macs_estimate)
               => /\ scope.outcome = "SystemExit"
                  /\ scope.message = APOPTOSIS_MESSAGE

C26_Witness ==
    /\ scope.pc = "exited"
    /\ ~guard_disabled(scope.env)
    /\ scope.body = "ValueError"
    /\ scope.counter - scope.start_joules = 39
    /\ scope.outcome = "SystemExit"

\* C27: with ENERGY_GUARD_ENABLED = 'false' a scope that was left read no
\* sample, ran no check and did not halt the process.
C27_DisabledNeverSamples ==
    (scope.pc = "exited" /\ scope.env \in {"false", "FALSE"}) =>
        /\ scope.start_samples = 0
        /\ scope.end_samples = 0
        /\ scope.checks = 0
        /\ scope.outcome # "SystemExit"

C27_Witness ==
    /\ scope.pc = "exited"
    /\ scope.env = "false"
    /\ scope.counter >= 39
    /\ scope.outcome = "none"


(***************************************************************************)
(* escape_hatches.py: the kill flag and the watchdog thread of one         *)
(* process, next to the governor cycle of governor.py run in that process. *)
(***************************************************************************)
killUnchanged == <<pc, started, result, cycles, events, logStart, pre, rho,
                   verdict, window, counters, paused, pauseHist, config,
                   configFile, energyEnabled, cache, call, diff, smt, mon,
                   store, probe, plan, planIn, planPc, planCache, planCall,
                   scope, http, elog, est, upd>>

\* the component steps of a cycle, in order, then the two commit statements
CycleSteps == <<"proof", "spectral", "drift", "energy", "record", "inc">>

ComponentSteps == {"proof", "spectral", "drift", "energy"}

StepAfter(step) ==
    LET i == CHOOSE k \in DOMAIN CycleSteps : CycleSteps[k] = step
    IN  CycleSteps[i + 1]

Running == proc.exit = "none"

\* governor.py line 10: importing the governor module calls start_watchdog();
\* no other module does (operator_api.py imports it only inside
\* /reload_model)
ImportGovernor ==
    /\ Running
    /\ ~proc.watchdog
    /\ proc' = [proc EXCEPT !.watchdog = TRUE]
    /\ UNCHANGED killUnchanged

\* request_kill(), called directly or by the handler of POST /kill
RequestKill ==
    /\ Running
    /\ ~proc.kill
    /\ proc' = [proc EXCEPT !.kill = TRUE]
    /\ UNCHANGED killUnchanged

\* _watchdog_loop: a poll that finds the flag set calls os._exit(1)
WatchdogExit ==
    /\ Running
    /\ proc.watchdog
    /\ proc.kill
    /\ proc' = [proc EXCEPT !.exit = "1", !.by = "watchdog"]
    /\ UNCHANGED killUnchanged

\* run_one_cycle is called (it lives in the governor module)
BeginCycle ==
    /\ Running
    /\ proc.watchdog
    /\ proc.pc = "idle"
    /\ proc.complete < MaxCycles
    /\ proc' = [proc EXCEPT !.pc = "proof"]
    /\ UNCHANGED killUnchanged

\* a component step (proof gate, spectral estimate, drift guard, energy
\* scope) starts running
BeginStep ==
    /\ Running
    /\ proc.pc \in ComponentSteps
    /\ ~proc.mid
    /\ proc' = [proc EXCEPT !.mid = TRUE]
    /\ UNCHANGED killUnchanged

\* the component step ends: the cycle goes on, or returns False (or raises)
EndStep ==
    /\ Running
    /\ proc.mid
    /\ \E admitted \in BOOLEAN :
        proc' = [proc EXCEPT !.mid = FALSE,
                             !.pc = IF admitted THEN StepAfter(proc.pc)
                                    ELSE "idle"]
    /\ UNCHANGED killUnchanged

\* record("cycle-complete", ...)
RecordComplete ==
    /\ Running
    /\ proc.pc = "record"
    /\ proc' = [proc EXCEPT !.complete = @ + 1, !.pc = "inc"]
    /\ UNCHANGED killUnchanged

\* CYCLE_COUNT.inc(), then run_one_cycle returns
IncCount ==
    /\ Running
    /\ proc.pc = "inc"
    /\ proc' = [proc EXCEPT !.count = @ + 1, !.pc = "idle"]
    /\ UNCHANGED killUnchanged

\* governor.py __main__: exit(0 if completed else 1) after its cycle
MainExit ==
    /\ Running
    /\ proc.watchdog
    /\ proc.pc = "idle"
    /\ \E completed \in BOOLEAN :
        proc' = [proc EXCEPT !.exit = IF completed THEN "0" ELSE "1",
                             !.by = "main"]
    /\ UNCHANGED killUnchanged

NextKill ==
    \/ ImportGovernor
    \/ RequestKill
    \/ WatchdogExit
    \/ BeginCycle
    \/ BeginStep
    \/ EndStep
    \/ RecordComplete
    \/ IncCount
    \/ MainExit

SpecKill == Init /\ [][NextKill]_vars

\* The watchdog is a thread of its own that polls once a second: a poll that
\* would exit is eventually made.  Nothing obliges a process to import the
\* governor, to run cycles or to leave its main program.
SpecKillFair == SpecKill /\ WF_vars(WatchdogExit)

\* C28: once the kill flag is set it stays set, and the process eventually
\* terminates with a non-zero exit code.
C28_KillLeadsToExit ==
    /\ [][proc.kill => proc'.kill]_vars
    /\ proc.kill ~> (proc.exit = "1")

\* C29: the watchdog terminates the process neither in the middle of a
\* component step nor between the cycle-complete event and the increment of
\* the completed-cycle counter.
C29_NoPartialCycleAtExit ==
    (proc.exit # "none" /\ proc.by = "watchdog") =>
        /\ ~proc.mid
        /\ proc.complete = proc.count


(***************************************************************************)
(* operator_api.py: requests to the endpoints of the FastAPI application.  *)
(***************************************************************************)
apiUnchanged == <<pc, started, result, cycles, events, logStart, pre, rho,
                  verdict, window, counters, paused, pauseHist, config,
                  configFile, energyEnabled, cache, call, diff, smt, mon,
                  store, probe, plan, planIn, planPc, planCache, planCall,
                  scope, proc, elog, est, upd>>

TOKEN == "devtoken"

Endpoints == {"GET /state", "POST /pause", "POST /kill", "POST /config",
              "POST /reload_model"}

\* values of the authorization header; "" is the missing header
AuthHeaders == {"", "Bearer devtoken", "Bearer wrong-token",
                "NotBearer token"}

\* request bodies (JSON)
Bodies == {"none", "flag_true", "flag_false", "config_valid",
           "config_out_of_range"}

\* _auth: the header must equal f"Bearer {TOKEN}"
AuthOk(authorization) == authorization = "Bearer devtoken"

\* the handlers that declare a body parameter (body: PauseReq,
\* body: ConfigUpdateReq); the others take the Request only
BodyModel(endpoint) ==
    CASE endpoint = "POST /pause" -> "PauseReq"
      [] endpoint = "POST /config" -> "ConfigUpdateReq"
      [] OTHER -> "none"

\* pydantic validation of the body against the declared model
BodyValid(model, body) ==
    CASE model = "PauseReq" -> body \in {"flag_true", "flag_false"}
      [] model = "ConfigUpdateReq" -> body = "config_valid"
      [] OTHER -> TRUE

FaultsOf(endpoint) ==
    CASE endpoint = "POST /config" -> {"none", "save", "record"}
      [] endpoint = "POST /reload_model" -> {"none", "reload", "record"}
      [] OTHER -> {"none"}

\* What the application answers.  FastAPI builds the handler's arguments
\* first: a body that fails the declared model is answered 422 and the
\* handler, whose first statement is _auth(request), is not called.
\* what can go wrong inside a handler: os.replace in _save_config, the
\* append to the event log, the construction of the fresh model
Faults == {"none", "save", "record", "reload"}

\* What the application answers.  FastAPI builds the handler's arguments
\* first: a body that fails the declared model is answered 422 and the
\* handler, whose first statement is _auth(request), is not called.
\* handled: the handler ran past _auth.
Respond(endpoint, authorization, body, fault) ==
    IF ~BodyValid(BodyModel(endpoint), body)
    THEN [status |-> 422, detail |-> "validation", handled |-> FALSE]
    ELSE IF ~AuthOk(authorization)
    THEN [status |-> 401, detail |-> "unauthorized", handled |-> FALSE]
    ELSE IF \/ endpoint = "POST /config" /\ fault \in {"save", "record"}
            \/ endpoint = "POST /reload_model" /\ fault \in {"reload", "record"}
    THEN [status |-> 500, detail |-> "failed", handled |-> TRUE]
    ELSE [status |-> 200, detail |-> "", handled |-> TRUE]

\* the values of the valid /config body
ConfigSent == [rho_max |-> 75, energy_multiplier |-> 15]

\* What the handler does to the process once _auth has passed.
Effects_BeforeAuth(h, endpoint, body, fault, handled) ==
    CASE endpoint = "POST /pause" ->
             [h EXCEPT !.pause = (body = "flag_true"), !.appended = <<>>]
      [] endpoint = "POST /kill" -> [h EXCEPT !.kill = TRUE, !.appended = <<>>]
      [] OTHER -> [h EXCEPT !.appended = <<>>]
Effects(h, endpoint, body, fault, handled) ==
    IF ~handled THEN [h EXCEPT !.appended = <<>>]
    ELSE CASE endpoint = "GET /state" ->
                 \* {"pause": is_paused(), "kill": False}
                 [h EXCEPT !.appended = <<>>,
                           !.reported = [pause |-> h.pause, kill |-> FALSE]]
           [] endpoint = "POST /pause" ->
                 [h EXCEPT !.pause = (body = "flag_true"), !.appended = <<>>]
           [] endpoint = "POST /kill" ->
                 [h EXCEPT !.kill = TRUE, !.appended = <<>>]
           [] endpoint = "POST /config" ->
                 \* update_config assigns _config, then saves; then record
                 [h EXCEPT !.config = ConfigSent,
                           !.file = IF fault = "save" THEN @ ELSE ConfigSent,
                           !.appended = IF fault = "none"
                                        THEN <<"config-update">> ELSE <<>>]
           [] endpoint = "POST /reload_model" ->
                 [h EXCEPT !.model = IF fault = "reload" THEN @
                                     ELSE "reloaded",
                           !.appended = IF fault = "none"
                                        THEN <<"model-reload">> ELSE <<>>]

\* one request is served
ServeRequest ==
    /\ \E endpoint \in Endpoints, authorization \in AuthHeaders,
          body \in Bodies, fault \in Faults :
        LET resp == Respond(endpoint, authorization, body, fault)
            after == Effects(http, endpoint, body, fault, resp.handled)
        IN  /\ fault \in FaultsOf(endpoint)
            /\ http' = [after EXCEPT
                           !.sent = TRUE, !.endpoint = endpoint,
                           !.authorization = authorization, !.body = body,
                           !.status = resp.status, !.detail = resp.detail,
                           !.handled = resp.handled]
    /\ UNCHANGED apiUnchanged

NextApi == ServeRequest

SpecApi == Init /\ [][NextApi]_vars

\* C30: a request whose authorization header is not exactly Bearer <TOKEN>
\* is answered 401 with detail unauthorized, whatever its body.
C30_BadAuthGets401 ==
    (http.sent /\ http.authorization # "Bearer devtoken") =>
        /\ http.status = 401
        /\ http.detail = "unauthorized"


SideEffecting == {"POST /pause", "POST /kill", "POST /config",
                  "POST /reload_model"}

\* C31: a successful side-effecting request appended exactly one event.
C31_SuccessAppendsOneEvent ==
    (http.sent /\ http.status = 200 /\ http.endpoint \in SideEffecting) =>
        Len(http.appended) = 1

\* C32: a successful GET /state reports the current pause and kill flags.
C32_StateReportsFlags ==
    (http.sent /\ http.status = 200 /\ http.endpoint = "GET /state") =>
        /\ http.reported.pause = http.pause
        /\ http.reported.kill = http.kill

\* what a request can change in the process
ApiState(h) == <<h.pause, h.kill, h.config, h.file, h.model>>

\* C40: a request answered 401 or 422 leaves the flags, the config, the
\* config file and the model as they were and appends no event.
C40_RejectedChangesNothing ==
    [][http'.status \in {401, 422} =>
          /\ ApiState(http') = ApiState(http)
          /\ http'.appended = <<>>]_vars

C40_Witness ==
    /\ http.status = 422
    /\ http.endpoint = "POST /config"
    /\ http.authorization = "Bearer devtoken"
    /\ http.body = "config_out_of_range"
    /\ http.config = ConfigSent
    /\ http.pause


(***************************************************************************)
(* event_log.py: concurrent calls of record on one log file.  The file is  *)
(* opened in append mode, so each write system call lands at the end of    *)
(* the file as it is at that moment.                                       *)
(***************************************************************************)
MaxRecords == 2

logUnchanged == <<pc, started, result, cycles, events, logStart, pre, rho,
                  verdict, window, counters, paused, pauseHist, config,
                  configFile, energyEnabled, cache, call, diff, smt, mon,
                  store, probe, plan, planIn, planPc, planCache, planCall,
                  scope, proc, http, est, upd>>

\* f.write(json.dumps({...}) + "\n"): the text goes to the file object's
\* buffer as one piece and reaches the file in one write when the with
\* block closes the file
WrittenPieces_Split(w, n) ==
    <<[w |-> w, n |-> n, part |-> "head"], [w |-> w, n |-> n, part |-> "tail"]>>
WrittenPieces(w, n) == <<[w |-> w, n |-> n, part |-> "line"]>>

\* LOG_PATH.exists() / touch(), LOG_PATH.open("a")
OpenLog(w) ==
    /\ elog.pc[w] = "idle"
    /\ elog.n[w] < MaxRecords
    /\ elog' = [elog EXCEPT !.pc[w] = "open", !.n[w] = @ + 1,
                            !.before[w] = elog.returned]
    /\ UNCHANGED logUnchanged

\* f.write(...)
WriteLog(w) ==
    /\ elog.pc[w] = "open"
    /\ elog' = [elog EXCEPT !.pc[w] = "buffered",
                            !.pending[w] = WrittenPieces(w, elog.n[w])]
    /\ UNCHANGED logUnchanged

\* leaving the with block: the buffer is flushed, one write per piece
FlushLog(w) ==
    /\ elog.pc[w] = "buffered"
    /\ elog.pending[w] # <<>>
    /\ elog' = [elog EXCEPT
                  !.file = Append(@, Head(elog.pending[w])),
                  !.pending[w] = Tail(@),
                  !.pc[w] = IF Len(elog.pending[w]) = 1 THEN "closed"
                            ELSE "buffered"]
    /\ UNCHANGED logUnchanged

\* record returns
ReturnLog(w) ==
    /\ elog.pc[w] = "closed"
    /\ elog' = [elog EXCEPT !.pc[w] = "idle",
                            !.returned = @ \cup {<<w, elog.n[w]>>}]
    /\ UNCHANGED logUnchanged

NextLog ==
    \/ \E w \in Writers : OpenLog(w)
    \/ \E w \in Writers : WriteLog(w)
    \/ \E w \in Writers : FlushLog(w)
    \/ \E w \in Writers : ReturnLog(w)

SpecLog == Init /\ [][NextLog]_vars

LinesOfCall(file, w, n) ==
    {i \in DOMAIN file : file[i].w = w /\ file[i].n = n}

\* C33: the log only grows at its end; a call that returns has added exactly
\* one complete line, placed after the lines of all calls that had returned
\* before it began, and next to no piece of another call's line.
C33_AppendOnlyTotalOrder ==
    [][/\ Len(elog'.file) >= Len(elog.file)
       /\ SubSeq(elog'.file, 1, Len(elog.file)) = elog.file
       /\ \A w \in Writers :
            (elog.pc[w] = "closed" /\ elog'.pc[w] = "idle") =>
                LET mine == LinesOfCall(elog.file, w, elog.n[w])
                IN  /\ Cardinality(mine) = 1
                    /\ \A i \in mine :
                         /\ elog.file[i].part = "line"
                         /\ \A c \in elog.before[w] :
                              \A j \in LinesOfCall(elog.file, c[1], c[2]) :
                                  j < i]_vars

C33_Witness ==
    /\ elog.returned = Writers \X (1..MaxRecords)
    /\ \E i \in DOMAIN elog.file :
         /\ i < Len(elog.file)
         /\ elog.file[i].w # elog.file[i + 1].w


(***************************************************************************)
(* operator_api.py /reload_model next to the spectral estimate of a        *)
(* governor cycle in the same process.                                     *)
(***************************************************************************)
MaxReloads == 2

reloadUnchanged == <<pc, started, result, cycles, events, logStart, pre, rho,
                     verdict, window, counters, paused, pauseHist, config,
                     configFile, energyEnabled, cache, call, diff, smt, mon,
                     store, probe, plan, planIn, planPc, planCache, planCall,
                     scope, proc, http, elog, upd>>

\* governor.py: estimate_spectral_radius(x0, n_iter=10)
n_iter == 10

\* the cycle reaches its spectral-radius guard
BeginEstimate ==
    /\ est.pc = "idle"
    /\ est' = [est EXCEPT !.pc = "estimating", !.iter = 0, !.used = {}]
    /\ UNCHANGED reloadUnchanged

\* one power iteration: a forward pass through the model's parameters
PowerIteration ==
    /\ est.pc = "estimating"
    /\ est.iter < n_iter
    /\ est' = [est EXCEPT !.iter = @ + 1, !.used = @ \cup {est.model}]
    /\ UNCHANGED reloadUnchanged

\* the estimate returns (all iterations done, or converged early) and the
\* cycle goes on to its end
EndEstimate ==
    /\ est.pc = "estimating"
    /\ est.iter >= 1
    /\ est' = [est EXCEPT !.pc = "idle"]
    /\ UNCHANGED reloadUnchanged

\* reload_model: _SPECTRAL_MODEL.load_state_dict(new_model.state_dict()),
\* under no lock
ReloadModel ==
    /\ est.model < MaxReloads
    /\ est' = [est EXCEPT !.model = @ + 1]
    /\ UNCHANGED reloadUnchanged

NextReload ==
    \/ BeginEstimate
    \/ PowerIteration
    \/ EndEstimate
    \/ ReloadModel

SpecReload == Init /\ [][NextReload]_vars

\* C34: one cycle's spectral estimate reads the same model parameters from
\* its first to its last iteration.
C34_OneModelPerCycle == Cardinality(est.used) <= 1


(***************************************************************************)
(* config_store.py: update_config called by concurrent threads, statement  *)
(* by statement.                                                           *)
(***************************************************************************)
updUnchanged == <<pc, started, result, cycles, events, logStart, pre, rho,
                  verdict, window, counters, paused, pauseHist, config,
                  configFile, energyEnabled, cache, call, diff, smt, mon,
                  store, probe, plan, planIn, planPc, planCache, planCall,
                  scope, proc, http, elog, est>>

\* valid update dicts
ValidUpdates == {[rho_max |-> 60], [energy_multiplier |-> 30],
                 [rho_max |-> 75, energy_multiplier |-> 15]}

\* with _config_lock: the lock is taken only when no thread holds it
LockAvailable_Always(lock) == TRUE
LockAvailable(lock) == lock = 0

\* update_config(updates) is called
CallUpdate(t) ==
    /\ upd.pc[t] = "idle"
    /\ \E u \in ValidUpdates :
        upd' = [upd EXCEPT !.pc[t] = "waiting", !.updates[t] = u]
    /\ UNCHANGED updUnchanged

AcquireLock(t) ==
    /\ upd.pc[t] = "waiting"
    /\ LockAvailable(upd.lock)
    /\ upd' = [upd EXCEPT !.pc[t] = "locked", !.lock = t]
    /\ UNCHANGED updUnchanged

\* new_values = asdict(_config); new_values.update(updates);
\* new_config = Config(**new_values); new_config.validate()
BuildConfig(t) ==
    /\ upd.pc[t] = "locked"
    /\ upd' = [upd EXCEPT !.pc[t] = "built",
                          !.local[t] = Merge(upd.config, upd.updates[t])]
    /\ UNCHANGED updUnchanged

\* _config = new_config
AssignConfig(t) ==
    /\ upd.pc[t] = "built"
    /\ upd' = [upd EXCEPT !.pc[t] = "assigned", !.config = upd.local[t]]
    /\ UNCHANGED updUnchanged

\* _save_config() writes asdict(_config), the global; a failure raises out
\* of the with block.  Leaving the block releases the lock.
SaveAndRelease(t) ==
    /\ upd.pc[t] = "assigned"
    /\ \E saveOk \in BOOLEAN :
        upd' = [upd EXCEPT
                  !.pc[t] = IF saveOk THEN "returned" ELSE "raised",
                  !.file = IF saveOk THEN upd.config ELSE @,
                  !.lock = IF @ = t THEN 0 ELSE @]
    /\ UNCHANGED updUnchanged

NextUpdates ==
    \/ \E t \in Updaters : CallUpdate(t)
    \/ \E t \in Updaters : AcquireLock(t)
    \/ \E t \in Updaters : BuildConfig(t)
    \/ \E t \in Updaters : AssignConfig(t)
    \/ \E t \in Updaters : SaveAndRelease(t)

SpecUpdates == Init /\ [][NextUpdates]_vars

\* the configs that applying the two updates one after the other gives
SerialResults ==
    {Merge(Merge(DefaultConfig, upd.updates[a]), upd.updates[b]) :
        <<a, b>> \in {<<1, 2>>, <<2, 1>>}}

AllReturned == \A t \in Updaters : upd.pc[t] = "returned"

\* C35: once all concurrent update_config calls have returned, the config is
\* the result of the updates in some serial order and the file encodes it.
C35_UpdatesSerialized ==
    AllReturned =>
        /\ upd.config \in SerialResults
        /\ upd.file = upd.config

C35_Witness ==
    /\ AllReturned
    /\ upd.updates[1] = [rho_max |-> 60]
    /\ upd.updates[2] = [energy_multiplier |-> 30]
    /\ upd.config = [rho_max |-> 60, energy_multiplier |-> 30]


(***************************************************************************)
(* The diff builder feeding the verifier: verify_bool(build_smt_diff(d), h) *)
(***************************************************************************)
gateUnchanged == <<pc, started, result, cycles, events, logStart, pre, rho,
                   verdict, window, counters, paused, pauseHist, config,
                   configFile, energyEnabled, mon, store, probe, plan,
                   planIn, planPc, planCache, planCall, scope, proc, http,
                   elog, est, upd>>

\* verify_bool returning the truth value of the verdict dict
verify_bool_Truthy(f, h, c, getOk, setOk, check_result) ==
    verify(f, h, c, getOk, setOk, check_result).value # <<>>

\* verify_bool(diff, charter_hash): result["result"] of verify's dict
verify_bool(f, h, c, getOk, setOk, check_result) ==
    verify(f, h, c, getOk, setOk, check_result).value.result

\* diff texts of at most this many lines are handed to the gate
MaxGateLines == 2

\* one more line of diff text, written before the text is verified
GateAddDiffLine ==
    /\ Len(diff) < MaxGateLines
    /\ call = NoCall
    /\ AddDiffLine
    /\ UNCHANGED <<cache, call>>

GateBuildSmtDiff ==
    /\ BuildSmtDiff
    /\ UNCHANGED <<cache, call>>

\* verify_bool(smt, h) on the formula built from the diff
VerifyBuilt ==
    /\ smt # "-"
    /\ \E h \in Hashes, getOk \in BOOLEAN, setOk \in BOOLEAN,
          check_result \in SolverCheck(smt) :
        LET r == verify(smt, h, cache, getOk, setOk, check_result)
        IN  /\ ~r.raised
            /\ cache' = r.cache
            /\ call' = [formula |-> smt, hash |-> h, raised |-> FALSE,
                        value |-> [r.value EXCEPT !.result =
                                     verify_bool(smt, h, cache, getOk, setOk,
                                                 check_result)],
                        check |-> r.check, parsed |-> r.parsed,
                        getOk |-> getOk, setOk |-> setOk,
                        tick |-> 1 - call.tick]
    /\ UNCHANGED <<diff, smt>>
    /\ UNCHANGED gateUnchanged

NextGate ==
    \/ GateAddDiffLine
    \/ GateBuildSmtDiff
    \/ VerifyBuilt

SpecGate == Init /\ [][NextGate]_vars

C36_WitnessSafe ==
    /\ call # NoCall
    /\ smt = build_smt_diff(diff)
    /\ call.formula = smt
    /\ diff # <<>>
    /\ ~HasSignatureChangingRename(diff)
    /\ ~HasForbiddenAddition(diff)
    /\ call.value.result


----------------------------------------------------------------------------
\* One event per returning invocation (specification Spec)

\* the invocation has returned (it did not raise and the process did not halt)
Returned == pc = "idle" /\ result \in {"true", "false"}

\* C37: an invocation that returns has appended exactly one event, of kind
\* proof-fail, drift-alert, spectral-breach or cycle-complete, and the
\* completed-cycle counter is incremented in exactly the invocations that
\* record cycle-complete.
C37_OneKnownEventPerCycle ==
    Returned =>
        /\ Len(CycleEvents) = 1
        /\ CycleEvents[1] \in
              {"proof-fail", "drift-alert", "spectral-breach", "cycle-complete"}
        /\ (counters["CYCLE_COUNT"] = pre.counters["CYCLE_COUNT"] + 1
              <=> CycleEvents[1] = "cycle-complete")
        /\ counters["CYCLE_COUNT"] \in
              {pre.counters["CYCLE_COUNT"], pre.counters["CYCLE_COUNT"] + 1}


----------------------------------------------------------------------------
\* Recovery of the drift monitor after an alert (specification SpecDrift)

\* the last call was the window_size-th (or a later) record of one value since
\* a record that raised
StableForWindow == mon.op = "record" /\ mon.run >= mon.window_size

----------------------------------------------------------------------------
\* Exceptions of the body of a measure_block scope (specification SpecEnergy)

\* C39: an exception raised inside the body of a measure_block scope
\* propagates to the caller of the scope unless the budget check halts the
\* process, with the guard enabled and with ENERGY_GUARD_ENABLED = "false".
C39_BodyExceptionPropagates ==
    (scope.pc = "exited" /\ scope.body # "none" /\ ~scope.breach)
        => scope.outcome = scope.body

====
